---- MODULE Spec2Model ----
(***************************************************************************)
(* Verification model of the AV1 temporal-unit merge filter                *)
(* (libavcodec/av1_frame_merge_bsf.c) and the AV1 frame-split filter       *)
(* (libavcodec/av1_frame_split_bsf.c).                                     *)
(*                                                                         *)
(* A packet is the sequence of OBUs its data consists of, together with    *)
(* its presentation timestamp and its side-data count.  A unit is a record *)
(* of the OBU type, the header fields the filters read, and the number of  *)
(* bytes the OBU occupies in the packet.                                   *)
(***************************************************************************)
EXTENDS Integers, Sequences, FiniteSets, TLC

\* ---------------------------------------------------------------- bounds
\* Largest number of OBUs in one input packet.
MaxUnits == 3
\* Largest number of units the merge filter's accumulator is driven to.
MaxTU == 4
\* Largest number of units after the Temporal Delimiter of a temporal unit
\* that is split and merged again.
MaxTail == 4
\* Largest number of units of a stream that is given to the merge filter.
MaxStreamUnits == 5
\* Largest number of descriptor OBUs that iamf_read_header is given.
MaxHeaderObus == 4
\* Largest number of Parameter Blocks that one call of iamf_read_packet
\* reads.
MaxBlocks == 1
\* The most layers of an audio element a recon gain block is parsed for.
MaxReconLayers == 2
\* The most bytes of a recon gain block.
MaxGainBytes == 4
\* The most bytes of an MPEG-2 fragment.
MaxBytes == 8

\* ------------------------------------------------------------- constants
AV1_OBU_SEQUENCE_HEADER    == "OBU_SEQUENCE_HEADER"
AV1_OBU_TEMPORAL_DELIMITER == "OBU_TEMPORAL_DELIMITER"
AV1_OBU_FRAME_HEADER       == "OBU_FRAME_HEADER"
AV1_OBU_TILE_GROUP         == "OBU_TILE_GROUP"
AV1_OBU_FRAME              == "OBU_FRAME"
\* An OBU whose header has the forbidden bit set: it cannot be parsed.
OBU_FORBIDDEN              == "obu_forbidden_bit"

OK                  == "0"
AVERROR_EAGAIN      == "AVERROR(EAGAIN)"
AVERROR_EOF         == "AVERROR_EOF"
AVERROR_INVALIDDATA == "AVERROR_INVALIDDATA"
\* The value of ret before the first call of a filter.
NOT_CALLED          == "not called"
\* A call that did not return: an assertion failed and the process aborted.
ABORTED             == "abort()"

AV_NOPTS_VALUE == "AV_NOPTS_VALUE"
PtsValues      == {"pts0"}

\* -------------------------------------------------------------- packets
\* A unit of a fragment: the OBU type, the decoded header fields the
\* filters read, and the size of the OBU in bytes.
Unit(type, sef, sf, cols, tg_end, size) ==
    [type |-> type, show_existing_frame |-> sef, show_frame |-> sf,
     tile_cols |-> cols, tile_rows |-> 1, tg_end |-> tg_end,
     data_size |-> size]

TemporalDelimiter == Unit(AV1_OBU_TEMPORAL_DELIMITER, 0, 0, 1, 0, 2)
SequenceHeader    == Unit(AV1_OBU_SEQUENCE_HEADER, 0, 0, 1, 0, 3)
Frame(sf)         == Unit(AV1_OBU_FRAME, 0, sf, 1, 0, 5)
FrameHeader(sef, sf, cols) == Unit(AV1_OBU_FRAME_HEADER, sef, sf, cols, 0, 1)
TileGroup(tg_end) == Unit(AV1_OBU_TILE_GROUP, 0, 0, 1, tg_end, 4)
Forbidden         == Unit(OBU_FORBIDDEN, 0, 0, 1, 0, 1)

\* A blank packet: the state av_packet_unref() and av_packet_alloc() leave.
BlankPkt == [units |-> <<>>, pts |-> AV_NOPTS_VALUE, dts |-> AV_NOPTS_VALUE,
             side_data_elems |-> 0]

\* All sequences over S of length 0..n.
SeqsUpTo(S, n) == UNION {[1..k -> S] : k \in 0..n}

\* The input packets over the units in S: a packet without data is not
\* blank only when it carries side data.
Packets(S, n) ==
    {[units |-> u, pts |-> t, dts |-> "dts0",
      side_data_elems |-> IF Len(u) = 0 THEN 1 ELSE 0] :
        u \in SeqsUpTo(S, n), t \in PtsValues}

\* ---------------------------------------------------- library functions
\* ff_bsf_get_packet_ref: hands the filter the packet the caller sent.
ff_bsf_get_packet_ref(bsf) ==
    IF bsf.eof
    THEN [err |-> AVERROR_EOF, pkt |-> BlankPkt, bsf |-> bsf]
    ELSE IF bsf.buffer_pkt = BlankPkt
    THEN [err |-> AVERROR_EAGAIN, pkt |-> BlankPkt, bsf |-> bsf]
    ELSE [err |-> OK, pkt |-> bsf.buffer_pkt,
          bsf |-> [bsf EXCEPT !.buffer_pkt = BlankPkt]]

\* ff_cbs_read_packet: splits the packet's data into units and decodes
\* them.  It fails on an OBU it cannot parse, and a failed read leaves no
\* unit in the fragment.
ff_cbs_read_packet(pkt) ==
    IF \E i \in 1..Len(pkt.units) : pkt.units[i].type = OBU_FORBIDDEN
    THEN [err |-> AVERROR_INVALIDDATA, units |-> <<>>]
    ELSE [err |-> OK, units |-> pkt.units]

\* ff_cbs_write_packet: assembles the fragment's units into the data of
\* pkt, whose other properties are kept.
ff_cbs_write_packet(pkt, frag) ==
    [pkt EXCEPT !.units = frag]

\* ------------------------------------------------------- merge filter
\* MisplacedDelimiter with the check starting one unit late.
MisplacedDelimiter_FromThird(frag) ==
    IF \E i \in 3..Len(frag) : frag[i].type = AV1_OBU_TEMPORAL_DELIMITER
    THEN 3
    ELSE 0

\* The index of the first Temporal Delimiter after unit 1, or 0.
MisplacedDelimiter(frag) ==
    IF \E i \in 2..Len(frag) : frag[i].type = AV1_OBU_TEMPORAL_DELIMITER
    THEN CHOOSE i \in 2..Len(frag) :
            /\ frag[i].type = AV1_OBU_TEMPORAL_DELIMITER
            /\ \A j \in 2..(i - 1) : frag[j].type # AV1_OBU_TEMPORAL_DELIMITER
    ELSE 0

\* MergeFail without the reset of the temporal unit.
MergeFail_KeepsUnits(ctx, bsf, err) ==
    [ctx |-> [ctx EXCEPT !.frag = <<>>],
     bsf |-> bsf, pkt |-> BlankPkt, ret |-> err]

\* The fail label: both fragments are reset and the packet is unreferenced.
MergeFail(ctx, bsf, err) ==
    [ctx |-> [ctx EXCEPT !.temporal_unit = <<>>, !.frag = <<>>],
     bsf |-> bsf, pkt |-> BlankPkt, ret |-> err]

\* MergeEmit without the reset of the temporal unit after it is written.
MergeEmit_NoReset(ctx, bsf, pkt, frag) ==
    LET out == ff_cbs_write_packet(pkt, ctx.temporal_unit)
    IN  IF MisplacedDelimiter(frag) # 0
        THEN MergeFail(ctx, bsf, AVERROR_INVALIDDATA)
        ELSE [ctx |-> [ctx EXCEPT !.temporal_unit = @ \o frag,
                                  !.frag = <<>>],
              bsf |-> bsf, pkt |-> out, ret |-> OK]

\* The eof label: the accumulated temporal unit is written to pkt, and the
\* units of frag start the next temporal unit.
MergeEmit(ctx, bsf, pkt, frag) ==
    LET out == ff_cbs_write_packet(pkt, ctx.temporal_unit)
    IN  IF MisplacedDelimiter(frag) # 0
        THEN MergeFail(ctx, bsf, AVERROR_INVALIDDATA)
        ELSE [ctx |-> [ctx EXCEPT !.temporal_unit = frag, !.frag = <<>>],
              bsf |-> bsf, pkt |-> out, ret |-> OK]

\* MergeAppend with a loop that ends after the first unit.
MergeAppend_First(ctx, bsf, frag) ==
    IF MisplacedDelimiter(frag) # 0
    THEN MergeFail(ctx, bsf, AVERROR_INVALIDDATA)
    ELSE [ctx |-> [ctx EXCEPT !.temporal_unit = Append(@, frag[1]),
                              !.frag = <<>>],
          bsf |-> bsf, pkt |-> BlankPkt, ret |-> AVERROR_EAGAIN]

\* MergeAppend with the units inserted at position 0 instead of the end.
MergeAppend_Front(ctx, bsf, frag) ==
    IF MisplacedDelimiter(frag) # 0
    THEN MergeFail(ctx, bsf, AVERROR_INVALIDDATA)
    ELSE [ctx |-> [ctx EXCEPT !.temporal_unit = frag \o @, !.frag = <<>>],
          bsf |-> bsf, pkt |-> BlankPkt, ret |-> AVERROR_EAGAIN]

\* The loop that appends the units of frag to the temporal unit.
MergeAppend(ctx, bsf, frag) ==
    IF MisplacedDelimiter(frag) # 0
    THEN MergeFail(ctx, bsf, AVERROR_INVALIDDATA)
    ELSE [ctx |-> [ctx EXCEPT !.temporal_unit = @ \o frag, !.frag = <<>>],
          bsf |-> bsf, pkt |-> BlankPkt, ret |-> AVERROR_EAGAIN]

\* FlushAtEOF with the test of the pending units inverted.
FlushAtEOF_Inverted(err, tu) ==
    err = AVERROR_EOF /\ Len(tu) = 0

\* No packet could be fetched, the input has ended and units are pending.
FlushAtEOF(err, tu) ==
    err = AVERROR_EOF /\ Len(tu) > 0

\* MissingDelimiter with the test of the pending units inverted.
MissingDelimiter_Inverted(tu, frag) ==
    Len(tu) > 0 /\ frag[1].type # AV1_OBU_TEMPORAL_DELIMITER

\* No temporal unit is pending and the packet does not start one.
MissingDelimiter(tu, frag) ==
    Len(tu) = 0 /\ frag[1].type # AV1_OBU_TEMPORAL_DELIMITER

\* StartsTemporalUnit that never holds: every packet is appended.
StartsTemporalUnit_Never(tu, frag) ==
    Len(tu) > 0 /\ Len(frag) < 0

\* A temporal unit is pending and the packet starts the next one.
StartsTemporalUnit(tu, frag) ==
    Len(tu) > 0 /\ frag[1].type = AV1_OBU_TEMPORAL_DELIMITER

\* One call of av1_frame_merge_filter with a clean output packet.
av1_frame_merge_filter(ctx, bsf) ==
    LET got == ff_bsf_get_packet_ref(bsf)
        tu  == ctx.temporal_unit
    IN  IF got.err # OK
        THEN IF FlushAtEOF(got.err, tu)
             THEN MergeEmit(ctx, got.bsf, got.pkt, ctx.frag)
             ELSE [ctx |-> ctx, bsf |-> got.bsf, pkt |-> got.pkt,
                   ret |-> got.err]
        ELSE LET rd   == ff_cbs_read_packet(got.pkt)
                 frag == rd.units
             IN  IF rd.err # OK
                 THEN MergeFail(ctx, got.bsf, rd.err)
                 ELSE IF Len(frag) = 0
                 THEN MergeFail(ctx, got.bsf, AVERROR_INVALIDDATA)
                 ELSE IF MissingDelimiter(tu, frag)
                 THEN MergeFail(ctx, got.bsf, AVERROR_INVALIDDATA)
                 ELSE IF StartsTemporalUnit(tu, frag)
                 THEN MergeEmit(ctx, got.bsf, got.pkt, frag)
                 ELSE MergeAppend(ctx, got.bsf, frag)

\* -------------------------------------------------------- split filter
\* frame == NULL
NoFrame == Unit("NULL", 0, 0, 1, 0, 0)

\* buffer_pkt->data is set: the packet holds data.
HasData(pkt) == Len(pkt.units) > 0

\* CountFrames that leaves out the Frame Header OBUs.
CountFrames_FramesOnly(td) ==
    Cardinality({i \in 1..Len(td) : td[i].type = AV1_OBU_FRAME})

\* The number of units of type Frame or FrameHeader.
CountFrames(td) ==
    Cardinality({i \in 1..Len(td) :
        td[i].type \in {AV1_OBU_FRAME, AV1_OBU_FRAME_HEADER}})

\* The offset in the packet's data of the unit with (0-based) index i.
RECURSIVE UnitOffset(_, _)
UnitOffset(td, i) ==
    IF i <= 0 THEN 0 ELSE UnitOffset(td, i - 1) + td[i].data_size

\* The units of td that lie in the bytes data .. data + size - 1.
UnitsInRange(td, data, size) ==
    LET inside == {j \in 1..Len(td) :
                      /\ UnitOffset(td, j - 1) >= data
                      /\ UnitOffset(td, j) <= data + size}
        first  == IF inside = {} THEN 1
                  ELSE CHOOSE j \in inside : \A k \in inside : j <= k
    IN  [n \in 1..Cardinality(inside) |-> td[first + n - 1]]

\* LastTileGroup comparing with the number of tiles instead of the last index.
LastTileGroup_OffByOne(group, frame) ==
    group.tg_end = frame.tile_cols * frame.tile_rows

\* tg_end names the last tile of the frame.
LastTileGroup(group, frame) ==
    group.tg_end = (frame.tile_cols * frame.tile_rows) - 1

\* SecondFrame without the test.
SecondFrame_Never(frame) == FALSE

\* if (frame): a frame has already been taken into the packet that is
\* being collected.
SecondFrame(frame) == frame # NoFrame

\* The loop over the units that follow the last split point.  L holds the
\* locals frame, cur_frame_type and size, and the context's counters.
RECURSIVE SplitLoop(_, _, _, _)
SplitLoop(td, nb_frames, i, L) ==
    IF i >= Len(td) THEN L
    ELSE
    LET unit == td[i + 1]
        L1   == [L EXCEPT !.size = @ + unit.data_size]
    IN  CASE unit.type = AV1_OBU_FRAME ->
                IF SecondFrame(L.frame)
                THEN [L1 EXCEPT !.failed = TRUE, !.second_frame = TRUE]
                ELSE LET L2 == [L1 EXCEPT !.frame = unit,
                                          !.cur_frame_type = unit.type,
                                          !.last_frame_idx = L.cur_frame_idx,
                                          !.cur_frame_idx = i,
                                          !.cur_frame = @ + 1]
                     IN  IF L2.cur_frame < nb_frames
                         THEN L2
                         ELSE SplitLoop(td, nb_frames, i + 1, L2)
          [] unit.type = AV1_OBU_FRAME_HEADER ->
                IF SecondFrame(L.frame)
                THEN [L1 EXCEPT !.failed = TRUE, !.second_frame = TRUE]
                ELSE LET L2 == [L1 EXCEPT !.frame = unit,
                                          !.cur_frame_type = unit.type,
                                          !.last_frame_idx = L.cur_frame_idx,
                                          !.cur_frame = @ + 1]
                     IN  IF /\ unit.show_existing_frame = 1
                            /\ L2.cur_frame < nb_frames
                         THEN [L2 EXCEPT !.cur_frame_idx = i]
                         ELSE SplitLoop(td, nb_frames, i + 1, L2)
          [] unit.type = AV1_OBU_TILE_GROUP ->
                IF L.frame = NoFrame \/ L.cur_frame_type # AV1_OBU_FRAME_HEADER
                THEN [L1 EXCEPT !.failed = TRUE]
                ELSE IF /\ LastTileGroup(unit, L.frame)
                        /\ L.cur_frame < nb_frames
                THEN [L1 EXCEPT !.cur_frame_idx = i]
                ELSE SplitLoop(td, nb_frames, i + 1, L1)
          [] OTHER -> SplitLoop(td, nb_frames, i + 1, L1)

\* SplitPts with the test of show_frame inverted.
SplitPts_ShowFrameInverted(frame, pts) ==
    IF frame.show_existing_frame = 0 /\ frame.show_frame # 0
    THEN AV_NOPTS_VALUE
    ELSE pts

\* The presentation timestamp of a split-off packet.
SplitPts(frame, pts) ==
    IF frame.show_existing_frame = 0 /\ frame.show_frame = 0
    THEN AV_NOPTS_VALUE
    ELSE pts

\* SplitFail without the release of buffer_pkt.
SplitFail_KeepsPacket(ctx, bsf, ret) ==
    [ctx |-> [ctx EXCEPT !.temporal_unit = <<>>],
     bsf |-> bsf, pkt |-> BlankPkt, ret |-> ret, abort |-> FALSE,
     violation |-> FALSE]

\* The fail label: the output packet and buffer_pkt are unreferenced and the
\* fragment is released.
SplitFail(ctx, bsf, ret) ==
    [ctx |-> [ctx EXCEPT !.buffer_pkt = BlankPkt, !.temporal_unit = <<>>],
     bsf |-> bsf, pkt |-> BlankPkt, ret |-> ret, abort |-> FALSE,
     violation |-> FALSE]

\* The split branch: the packet of the next frame is cut out of buffer_pkt.
SplitBranch(ctx, bsf) ==
    LET td == ctx.temporal_unit
        L  == SplitLoop(td, ctx.nb_frames, ctx.cur_frame_idx + 1,
                        [frame |-> NoFrame, cur_frame_type |-> "none",
                         size |-> 0, failed |-> FALSE,
                         second_frame |-> FALSE,
                         cur_frame |-> ctx.cur_frame,
                         cur_frame_idx |-> ctx.cur_frame_idx,
                         last_frame_idx |-> ctx.last_frame_idx])
        s  == [ctx EXCEPT !.cur_frame = L.cur_frame,
                          !.cur_frame_idx = L.cur_frame_idx,
                          !.last_frame_idx = L.last_frame_idx]
    IN  IF L.failed
        THEN [SplitFail(s, bsf, AVERROR_INVALIDDATA) EXCEPT
                 !.violation = L.second_frame]
        ELSE IF L.frame = NoFrame
        THEN \* av_assert0(frame) fails
             [ctx |-> s, bsf |-> bsf, pkt |-> BlankPkt, ret |-> ABORTED,
              abort |-> TRUE, violation |-> FALSE]
        ELSE LET data == UnitOffset(td, s.last_frame_idx + 1)
                 out  == [ctx.buffer_pkt EXCEPT
                            !.units = UnitsInRange(td, data, L.size),
                            !.pts = SplitPts(L.frame, @)]
             IN  [ctx |-> IF s.cur_frame >= s.nb_frames
                          THEN [s EXCEPT !.buffer_pkt = BlankPkt,
                                         !.temporal_unit = <<>>]
                          ELSE s,
                  bsf |-> bsf, pkt |-> out, ret |-> OK, abort |-> FALSE,
                  violation |-> FALSE]

\* NeedsSplit with the comparison off by one.
NeedsSplit_OffByOne(nb_frames) == nb_frames > 0

\* The packet holds more than one frame.
NeedsSplit(nb_frames) == nb_frames > 1

\* The else branch: buffer_pkt is moved to the output packet.
PassThrough(ctx, bsf) ==
    [ctx |-> [ctx EXCEPT !.buffer_pkt = BlankPkt, !.temporal_unit = <<>>],
     bsf |-> bsf, pkt |-> ctx.buffer_pkt, ret |-> OK, abort |-> FALSE,
     violation |-> FALSE]

\* One call of av1_frame_split_filter with a clean output packet.
av1_frame_split_filter(ctx, bsf) ==
    IF HasData(ctx.buffer_pkt)
    THEN SplitBranch(ctx, bsf)
    ELSE
    LET got == ff_bsf_get_packet_ref(bsf)
    IN  IF got.err # OK
        THEN [ctx |-> ctx, bsf |-> got.bsf, pkt |-> BlankPkt,
              ret |-> got.err, abort |-> FALSE, violation |-> FALSE]
        ELSE
        LET rd == ff_cbs_read_packet(got.pkt)
            s0 == [ctx EXCEPT !.buffer_pkt = got.pkt,
                              !.temporal_unit = rd.units]
        IN  IF rd.err # OK
            THEN [ctx |-> s0, bsf |-> got.bsf, pkt |-> BlankPkt,
                  ret |-> rd.err, abort |-> FALSE, violation |-> FALSE]
            ELSE IF NeedsSplit(CountFrames(rd.units))
            THEN SplitBranch([s0 EXCEPT !.cur_frame = 0,
                                        !.cur_frame_idx = -1,
                                        !.last_frame_idx = -1,
                                        !.nb_frames = CountFrames(rd.units)],
                             got.bsf)
            ELSE PassThrough(s0, got.bsf)

\* =========================================================== IAMF demuxer
\* enum IAMF_OBU_Type: the numbers matter, the demuxer tests ranges of them.
IAMF_OBU_IA_CODEC_CONFIG       == 0
IAMF_OBU_IA_AUDIO_ELEMENT      == 1
IAMF_OBU_IA_MIX_PRESENTATION   == 2
IAMF_OBU_IA_PARAMETER_BLOCK    == 3
IAMF_OBU_IA_TEMPORAL_DELIMITER == 4
IAMF_OBU_IA_AUDIO_FRAME        == 5
IAMF_OBU_IA_AUDIO_FRAME_ID0    == 6
IAMF_OBU_IA_AUDIO_FRAME_ID17   == 23
IAMF_OBU_IA_SEQUENCE_HEADER    == 31

AV_IAMF_PARAMETER_DEFINITION_MIX_GAIN   == "MIX_GAIN"
AV_IAMF_PARAMETER_DEFINITION_DEMIXING   == "DEMIXING"
AV_IAMF_PARAMETER_DEFINITION_RECON_GAIN == "RECON_GAIN"
AV_IAMF_ANIMATION_TYPE_BEZIER == 2
AV_CODEC_ID_NONE == "AV_CODEC_ID_NONE"
AV_CODEC_ID_OPUS == "AV_CODEC_ID_OPUS"

\* recon_gain[6][12] of AVIAMFReconGainParameterData.
MaxLayers     == 6
ReconGainBits == 12

\* ------------------------------------------------------------- the OBUs
\* An OBU as the demuxer reads it: id is the id the OBU declares
\* (codec_config_id, audio_element_id, mix_presentation_id, parameter_id or
\* the explicit audio_substream_id); ref is the codec_config_id an Audio
\* Element refers to, or the parameter_id of a Mix Presentation's
\* output_mix_config; params are the parameter definitions of an Audio
\* Element, or the submix elements of a Mix Presentation, each with the
\* audio_element_id it refers to and the parameter_id of its
\* element_mix_config; data is the payload of a Parameter Block; trunc says
\* that the OBU ends before its first field.
NoData == [animation_type |-> 0, value |-> 0, bytes |-> <<>>]
IamfObu(type, id) ==
    [type |-> type, id |-> id, ref |-> 0, codec |-> "", substreams |-> <<>>,
     params |-> <<>>, layers |-> <<>>, data |-> NoData, trunc |-> FALSE]
ParamDef(type, id, ref) == [type |-> type, id |-> id, ref |-> ref]
CodecConfigObu(id, codec) ==
    [IamfObu(IAMF_OBU_IA_CODEC_CONFIG, id) EXCEPT !.codec = codec]
AudioElementObu(id, codec_config_id, substreams, params, layers) ==
    [IamfObu(IAMF_OBU_IA_AUDIO_ELEMENT, id) EXCEPT
        !.ref = codec_config_id, !.substreams = substreams,
        !.params = params, !.layers = layers]
MixPresentationObu(id, elements, output_mix_id) ==
    [IamfObu(IAMF_OBU_IA_MIX_PRESENTATION, id) EXCEPT
        !.params = elements, !.ref = output_mix_id]
ParameterBlockObu(id, animation_type, value, bytes) ==
    [IamfObu(IAMF_OBU_IA_PARAMETER_BLOCK, id) EXCEPT
        !.data = [animation_type |-> animation_type, value |-> value,
                  bytes |-> bytes]]
TemporalDelimiterObu == IamfObu(IAMF_OBU_IA_TEMPORAL_DELIMITER, 0)
SequenceHeaderObu    == IamfObu(IAMF_OBU_IA_SEQUENCE_HEADER, 0)
AudioFrameObu(id)    == IamfObu(IAMF_OBU_IA_AUDIO_FRAME, id)
AudioFrameIdObu(n)   == IamfObu(IAMF_OBU_IA_AUDIO_FRAME_ID0 + n, 0)
TruncatedObu(obu)    == [obu EXCEPT !.trunc = TRUE]

\* ------------------------------------------------------------ the state
\* No parameter snapshot: c->mix, c->demix or c->recon is NULL.
NoParam ==
    [parameter_id |-> 0, param_definition_type |-> "NULL",
     animation_type |-> 0, value |-> 0, recon_gain |-> <<>>]
\* IAMFDemuxContext after allocation, with the streams of the
\* AVFormatContext.
DemuxInit ==
    [codec_configs |-> <<>>, audio_elements |-> <<>>,
     mix_presentations |-> <<>>, param_definitions |-> <<>>,
     mix |-> NoParam, demix |-> NoParam, recon |-> NoParam,
     streams |-> <<>>]
\* A packet that no call has filled.
NoPkt ==
    [stream_index |-> -1, mix |-> NoParam, demix |-> NoParam,
     recon |-> NoParam]

\* The index of the first record of seq whose field id is id; 0: none.
FirstIndex(seq, id) ==
    IF \E i \in 1..Len(seq) : seq[i].id = id
    THEN CHOOSE i \in 1..Len(seq) :
            /\ seq[i].id = id
            /\ \A k \in 1..(i - 1) : seq[k].id # id
    ELSE 0
\* The index of the last such record: the loop of mix_presentation_obu does
\* not stop at the first match.
LastIndex(seq, id) ==
    IF \E i \in 1..Len(seq) : seq[i].id = id
    THEN CHOOSE i \in 1..Len(seq) :
            /\ seq[i].id = id
            /\ \A k \in (i + 1)..Len(seq) : seq[k].id # id
    ELSE 0

\* -------------------------------------------------------------- leb128
\* An unsigned 32 bit value as its five groups of 7 bits, the lowest first:
\* the numbers do not fit the integers of the model checker.
Zero32 == <<0, 0, 0, 0, 0>>
\* The value of groups as an integer, for values below 2^28.
SmallValue(groups) ==
    groups[1] + 128 * groups[2] + 16384 * groups[3] + 2097152 * groups[4]

\* leb() of the demuxer on the bytes from position pos (0-based): n is the
\* number of bytes read, len the value.  A read at the end of the buffer
\* sets eof_reached.
RECURSIVE DecLebLoop(_, _, _, _)
DecLebLoop(bytes, pos, i, len) ==
    IF pos + i >= Len(bytes)
    THEN [err |-> AVERROR_INVALIDDATA, n |-> i, len |-> len]
    ELSE LET byte == bytes[pos + i + 1]
             more == byte \div 128
             bits == byte % 128
             fits == i <= 3 \/ (i = 4 /\ bits < 16)
             len1 == IF fits THEN [len EXCEPT ![i + 1] = bits] ELSE len
         IN  IF ~fits /\ bits # 0
             THEN [err |-> AVERROR_INVALIDDATA, n |-> i, len |-> len]
             ELSE IF i + 1 = 8 /\ more = 1
             THEN [err |-> AVERROR_INVALIDDATA, n |-> i + 1, len |-> len1]
             ELSE IF more = 1
             THEN DecLebLoop(bytes, pos, i + 1, len1)
             ELSE [err |-> OK, n |-> i + 1, len |-> len1]

DecLeb(bytes, pos) == DecLebLoop(bytes, pos, 0, Zero32)

\* avio_r8: the byte at position pos, 0 at the end of the buffer.
ReadByte(bytes, pos) == IF pos < Len(bytes) THEN bytes[pos + 1] ELSE 0

\* ----------------------------------------------------------- recon gain
\* The layer has recon_gain_is_present set; its mutant takes every layer.
ReconGainPresent_Always(layer) == TRUE
ReconGainPresent(layer) == layer = 1

\* One flagged layer of a recon gain subblock: the flags are read as a
\* leb128 value, then one gain byte for every flag that is set.
ReconGainLayer(bytes, pos, row0) ==
    LET l        == DecLeb(bytes, pos)
        v        == SmallValue(l.len)
        bitcount == 7 + 5 * ((v \div 128) % 2)
        flags    == (v % 128) + ((v \div 256) % 256) * 128
        IsSet(j) == (flags \div (2 ^ j)) % 2 = 1
        Before(j) == Cardinality({k \in 0..(j - 1) : IsSet(k)})
    IN  [err |-> l.err,
         row |-> [j \in 1..ReconGainBits |->
                    IF j <= bitcount /\ IsSet(j - 1)
                    THEN ReadByte(bytes, pos + l.n + Before(j - 1))
                    ELSE row0[j]],
         pos |-> pos + l.n + Before(bitcount)]

\* The loop over the layers of the audio element: R holds the position in
\* the buffer, the gains, the layers a bitmap was read for, and the error.
RECURSIVE ReconGainLoop(_, _, _, _)
ReconGainLoop(layers, bytes, i, R) ==
    IF i > Len(layers) THEN R
    ELSE IF ReconGainPresent(layers[i])
    THEN LET g == ReconGainLayer(bytes, R.pos, R.recon_gain[i])
         IN  IF g.err # OK
             THEN [R EXCEPT !.err = g.err]
             ELSE ReconGainLoop(layers, bytes, i + 1,
                      [R EXCEPT !.pos = g.pos,
                                !.recon_gain[i] = g.row,
                                !.read = @ \cup {i}])
    ELSE ReconGainLoop(layers, bytes, i + 1, R)

\* The gains of a subblock that avformat_iamf_param_definition_alloc has
\* zeroed, for the layers of the audio element.
NoGain(layers) == [i \in 1..Len(layers) |-> [j \in 1..ReconGainBits |-> 0]]

ParseReconGain(layers, bytes) ==
    ReconGainLoop(layers, bytes, 1,
                  [pos |-> 0, recon_gain |-> NoGain(layers), read |-> {},
                   err |-> OK])

\* ------------------------------------------------------- the OBU readers
\* Each reader returns the context it leaves and its return value.
Done(c, ret) == [c |-> c, ret |-> ret]

\* codec_config_obu.
codec_config_obu(c, obu) ==
    IF obu.trunc THEN Done(c, AVERROR_INVALIDDATA)
    ELSE IF FirstIndex(c.codec_configs, obu.id) # 0
    THEN Done(c, AVERROR_INVALIDDATA)
    ELSE Done([c EXCEPT !.codec_configs =
                  Append(@, [id |-> obu.id, codec_id |-> obu.codec])], OK)

\* param_parse: the definition is looked up by its parameter_id; a new one
\* is registered with the audio element it is parsed for (0: none), a known
\* one has to have the same type.
param_parse(c, param_definition_type, audio_element, parameter_id) ==
    LET old == FirstIndex(c.param_definitions, parameter_id)
    IN  IF old # 0
        THEN IF c.param_definitions[old].param_definition_type
                  # param_definition_type
             THEN Done(c, AVERROR_INVALIDDATA)
             ELSE Done(c, OK)
        ELSE Done([c EXCEPT !.param_definitions =
                      Append(@, [id |-> parameter_id,
                                 param_definition_type |->
                                     param_definition_type,
                                 audio_element |-> audio_element])], OK)

\* The loop of audio_element_obu over the parameter definitions of the
\* element at index e.
RECURSIVE ElementParams(_, _, _, _)
ElementParams(c, e, params, i) ==
    IF i > Len(params) THEN Done(c, OK)
    ELSE LET p == params[i]
         IN  IF p.type = AV_IAMF_PARAMETER_DEFINITION_MIX_GAIN
             THEN Done(c, AVERROR_INVALIDDATA)
             ELSE IF p.type \in {AV_IAMF_PARAMETER_DEFINITION_DEMIXING,
                                 AV_IAMF_PARAMETER_DEFINITION_RECON_GAIN}
             THEN LET r == param_parse(c, p.type, e, p.id)
                  IN  IF r.ret # OK THEN r
                      ELSE ElementParams(r.c, e, params, i + 1)
             ELSE ElementParams(c, e, params, i + 1)

\* The codec config an Audio Element refers to has to be registered; its
\* mutant takes the first codec config for any id.
CodecConfigOf_Any(c, codec_config_id) ==
    IF Len(c.codec_configs) > 0 THEN 1 ELSE 0
CodecConfigOf(c, codec_config_id) ==
    FirstIndex(c.codec_configs, codec_config_id)

\* audio_element_obu: the element is added with its substreams before its
\* parameter definitions and its layers are read.
audio_element_obu(c, obu) ==
    IF obu.trunc THEN Done(c, AVERROR_INVALIDDATA)
    ELSE IF FirstIndex(c.audio_elements, obu.id) # 0
    THEN Done(c, AVERROR_INVALIDDATA)
    ELSE
    LET cc == CodecConfigOf(c, obu.ref)
    IN  IF cc = 0 THEN Done(c, AVERROR_INVALIDDATA)
        ELSE IF c.codec_configs[cc].codec_id = AV_CODEC_ID_NONE
        THEN Done(c, OK)
        ELSE
        LET e  == Len(c.audio_elements) + 1
            c1 == [c EXCEPT
                     !.audio_elements =
                        Append(@, [id |-> obu.id,
                                   codec_config_id |-> obu.ref,
                                   audio_substreams |->
                                      [k \in 1..Len(obu.substreams) |->
                                          Len(c.streams) + k],
                                   layers |-> <<>>]),
                     !.streams = @ \o obu.substreams]
            r  == ElementParams(c1, e, obu.params, 1)
        IN  IF r.ret # OK THEN r
            ELSE IF Len(obu.layers) > MaxLayers
            THEN Done(r.c, AVERROR_INVALIDDATA)
            ELSE Done([r.c EXCEPT !.audio_elements[e].layers = obu.layers],
                      OK)

\* The audio element a submix element refers to; its mutant takes the first
\* audio element for any id.
AudioElementOf_Any(c, audio_element_id) ==
    IF Len(c.audio_elements) > 0 THEN 1 ELSE 0
AudioElementOf(c, audio_element_id) ==
    LastIndex(c.audio_elements, audio_element_id)

\* The loop of mix_presentation_obu over the submix elements of the mix
\* presentation at index m.
RECURSIVE SubmixElements(_, _, _, _)
SubmixElements(c, m, elements, j) ==
    IF j > Len(elements) THEN Done(c, OK)
    ELSE LET el == elements[j]
             e  == AudioElementOf(c, el.ref)
         IN  IF e = 0 THEN Done(c, AVERROR_INVALIDDATA)
             ELSE LET r == param_parse(
                              c, AV_IAMF_PARAMETER_DEFINITION_MIX_GAIN,
                              e, el.id)
                  IN  IF r.ret # OK THEN r
                      ELSE SubmixElements(
                              [r.c EXCEPT !.mix_presentations[m].elements =
                                  Append(@, [audio_element_id |-> el.ref,
                                             audio_element |-> e,
                                             parameter_id |-> el.id])],
                              m, elements, j + 1)

\* mix_presentation_obu: the mix presentation is added before its submix
\* elements are read.
mix_presentation_obu(c, obu) ==
    IF obu.trunc THEN Done(c, AVERROR_INVALIDDATA)
    ELSE IF FirstIndex(c.mix_presentations, obu.id) # 0
    THEN Done(c, AVERROR_INVALIDDATA)
    ELSE
    LET m  == Len(c.mix_presentations) + 1
        c1 == [c EXCEPT !.mix_presentations =
                  Append(@, [id |-> obu.id, elements |-> <<>>])]
        r  == SubmixElements(c1, m, obu.params, 1)
    IN  IF r.ret # OK THEN r
        ELSE param_parse(r.c, AV_IAMF_PARAMETER_DEFINITION_MIX_GAIN, 0,
                         obu.ref)

\* The Temporal Delimiter case of iamf_read_header: the parameter snapshots
\* are freed.
ClearParams(c) ==
    [c EXCEPT !.mix = NoParam, !.demix = NoParam, !.recon = NoParam]

\* The OBU ends the header: a Parameter Block, a Temporal Delimiter, an
\* Audio Frame or a reserved type.
EndsHeader(type) ==
    type >= IAMF_OBU_IA_PARAMETER_BLOCK /\ type < IAMF_OBU_IA_SEQUENCE_HEADER

\* iamf_read_header on the OBUs from index i on: n is the number of OBUs
\* that have been consumed.  The file ends after the last OBU.
RECURSIVE iamf_read_header(_, _, _)
iamf_read_header(c, obus, i) ==
    IF i > Len(obus)
    THEN [c |-> c, ret |-> AVERROR_EOF, n |-> i - 1]
    ELSE
    LET obu == obus[i]
    IN  IF EndsHeader(obu.type)
        THEN [c |-> c, ret |-> OK, n |-> i - 1]
        ELSE
        LET r == CASE obu.type = IAMF_OBU_IA_CODEC_CONFIG ->
                        codec_config_obu(c, obu)
                   [] obu.type = IAMF_OBU_IA_AUDIO_ELEMENT ->
                        audio_element_obu(c, obu)
                   [] obu.type = IAMF_OBU_IA_MIX_PRESENTATION ->
                        mix_presentation_obu(c, obu)
                   [] obu.type = IAMF_OBU_IA_TEMPORAL_DELIMITER ->
                        Done(ClearParams(c), OK)
                   [] OTHER -> Done(c, OK)
        IN  IF r.ret # OK
            THEN [c |-> r.c, ret |-> r.ret, n |-> i]
            ELSE iamf_read_header(r.c, obus, i + 1)

\* find_stream_by_id: the index (0-based) of the first stream with the id,
\* -1: none.
find_stream_by_id(c, id) ==
    IF \E i \in 1..Len(c.streams) : c.streams[i] = id
    THEN (CHOOSE i \in 1..Len(c.streams) :
             /\ c.streams[i] = id
             /\ \A k \in 1..(i - 1) : c.streams[k] # id) - 1
    ELSE -1

\* The substream id of an Audio Frame OBU; its mutant takes the OBU type.
SubstreamId_Type(obu, id_in_bitstream) ==
    IF id_in_bitstream THEN obu.id ELSE obu.type
SubstreamId(obu, id_in_bitstream) ==
    IF id_in_bitstream THEN obu.id
    ELSE obu.type - IAMF_OBU_IA_AUDIO_FRAME_ID0

\* audio_frame_obu: the packet is given the stream and the parameter
\* snapshots that are set.
audio_frame_obu(c, obu, id_in_bitstream) ==
    IF obu.trunc
    THEN [c |-> c, ret |-> AVERROR_INVALIDDATA, pkt |-> NoPkt]
    ELSE
    LET st == find_stream_by_id(c, SubstreamId(obu, id_in_bitstream))
    IN  IF st < 0
        THEN [c |-> c, ret |-> AVERROR_INVALIDDATA, pkt |-> NoPkt]
        ELSE [c |-> c, ret |-> OK,
              pkt |-> [stream_index |-> st, mix |-> c.mix,
                       demix |-> c.demix, recon |-> c.recon]]

\* get_param_definition.
get_param_definition(c, parameter_id) ==
    FirstIndex(c.param_definitions, parameter_id)

\* What parameter_block_obu does with a block whose parameter_id is not
\* registered: it is skipped; its mutant rejects it.
UnknownParameter_Rejected(c) == Done(c, AVERROR_INVALIDDATA)
UnknownParameter(c) == Done(c, OK)

\* The snapshot that replaces the one of its type; its mutant keeps the
\* old one.
SetParam_Keep(old, new) == old
SetParam(old, new) == new

\* parameter_block_obu.
parameter_block_obu(c, obu) ==
    IF obu.trunc THEN Done(c, AVERROR_INVALIDDATA)
    ELSE
    LET d == get_param_definition(c, obu.id)
    IN  IF d = 0 THEN UnknownParameter(c)
        ELSE
        LET param == c.param_definitions[d]
            out   == [parameter_id |-> param.id,
                      param_definition_type |-> param.param_definition_type,
                      animation_type |-> 0, value |-> 0,
                      recon_gain |-> <<>>]
        IN  CASE param.param_definition_type
                    = AV_IAMF_PARAMETER_DEFINITION_MIX_GAIN ->
                   IF obu.data.animation_type > AV_IAMF_ANIMATION_TYPE_BEZIER
                   THEN Done(c, OK)
                   ELSE Done([c EXCEPT !.mix = SetParam(@,
                                [out EXCEPT
                                   !.animation_type = obu.data.animation_type,
                                   !.value = obu.data.value])], OK)
              [] param.param_definition_type
                    = AV_IAMF_PARAMETER_DEFINITION_DEMIXING ->
                   Done([c EXCEPT !.demix = SetParam(@,
                            [out EXCEPT !.value = obu.data.value])], OK)
              [] OTHER ->
                   IF param.audio_element = 0
                   THEN Done(c, ABORTED)
                   ELSE
                   LET g == ParseReconGain(
                               c.audio_elements[param.audio_element].layers,
                               obu.data.bytes)
                   IN  IF g.err # OK THEN Done(c, g.err)
                       ELSE Done([c EXCEPT !.recon = SetParam(@,
                                [out EXCEPT !.recon_gain = g.recon_gain])],
                                OK)

\* iamf_read_packet on the OBUs from index i on.  The file ends after the
\* last OBU.  ret is the value of the last call that has set it.
RECURSIVE iamf_read_packet(_, _, _)
iamf_read_packet(c, obus, i) ==
    IF i > Len(obus)
    THEN [c |-> c, ret |-> AVERROR_EOF, pkt |-> NoPkt, n |-> i - 1]
    ELSE
    LET obu == obus[i]
    IN  IF obu.type = IAMF_OBU_IA_AUDIO_FRAME
        THEN LET a == audio_frame_obu(c, obu, TRUE)
             IN  [c |-> a.c, ret |-> a.ret, pkt |-> a.pkt, n |-> i]
        ELSE IF /\ obu.type >= IAMF_OBU_IA_AUDIO_FRAME_ID0
                /\ obu.type <= IAMF_OBU_IA_AUDIO_FRAME_ID17
        THEN LET a == audio_frame_obu(c, obu, FALSE)
             IN  [c |-> a.c, ret |-> a.ret, pkt |-> a.pkt, n |-> i]
        ELSE IF obu.type = IAMF_OBU_IA_PARAMETER_BLOCK
        THEN LET r == parameter_block_obu(c, obu)
             IN  IF r.ret # OK
                 THEN [c |-> r.c, ret |-> r.ret, pkt |-> NoPkt, n |-> i]
                 ELSE iamf_read_packet(r.c, obus, i + 1)
        ELSE [c |-> c, ret |-> OK, pkt |-> NoPkt, n |-> i]

\* iamf_read_close.
iamf_read_close(c) == DemuxInit

\* The parameter snapshots of a context, as a packet carries them.
Params(c) == [NoPkt EXCEPT !.mix = c.mix, !.demix = c.demix,
                           !.recon = c.recon]
\* The demuxer after avformat_alloc_context, and its call record when no
\* call has been made: before holds the parameter snapshots the call
\* started from.
IamfInit   == [c |-> DemuxInit, phase |-> "opened", pending |-> <<>>]
NoIamfCall == [fn |-> "none", obus |-> <<>>, ret |-> NOT_CALLED,
               pkt |-> NoPkt, before |-> NoPkt]
\* No function has been applied.
NoPure     == [fn |-> "none"]

\* ------------------------------------------------------ leb128, written
\* The argument of the muxer's leb(): an unsigned int, the low 32 bits of
\* the value u that is passed (u as groups of 7 bits, the lowest first).
ToUnsigned(u) == [i \in 1..5 |-> IF i = 5 THEN u[5] % 16 ELSE u[i]]

\* av_log2 of a group of 7 bits: the position of its highest bit, 0 for 0.
Log2Group(x) ==
    IF x >= 64 THEN 6 ELSE IF x >= 32 THEN 5 ELSE IF x >= 16 THEN 4
    ELSE IF x >= 8 THEN 3 ELSE IF x >= 4 THEN 2 ELSE IF x >= 2 THEN 1 ELSE 0
av_log2(value) ==
    LET used == {i \in 1..5 : value[i] # 0}
        top  == IF used = {} THEN 1
                ELSE CHOOSE i \in used : \A k \in used : k <= i
    IN  7 * (top - 1) + Log2Group(value[top])

\* leb() of the muxer: the bytes it writes for value.  Its mutant rounds
\* the length down.
EncLeb_Short(value) ==
    LET len == (av_log2(value) + 6) \div 7
    IN  [i \in 1..len |-> value[i] + (IF i < len THEN 128 ELSE 0)]
EncLeb(value) ==
    LET len == (av_log2(value) + 7) \div 7
    IN  [i \in 1..len |-> value[i] + (IF i < len THEN 128 ELSE 0)]

\* ----------------------------------------------- leb128, read from bits
INT_MAX == 2147483647
\* The value of an unsigned int that is at most INT_MAX.
Value31(groups) == SmallValue(groups) + 268435456 * groups[5]

\* (unsigned)AVERROR_INVALIDDATA, 0xBBB1B608: what a function that returns
\* unsigned hands to its caller for "return AVERROR_INVALIDDATA".
InvalidDataAsUnsigned == <<8, 108, 70, 93, 11>>

\* get_leb128() of the demuxer on the bytes from position pos (0-based): n
\* is the number of bytes consumed, value the unsigned that is returned.
\* get_bits() past the end of the buffer reads its zero padding.
RECURSIVE GetLeb128Loop(_, _, _, _)
GetLeb128Loop(bytes, pos, i, len) ==
    LET byte == ReadByte(bytes, pos + i)
        more == byte \div 128
        bits == byte % 128
        fits == i <= 3 \/ (i = 4 /\ bits < 16)
        len1 == IF fits THEN [len EXCEPT ![i + 1] = bits] ELSE len
    IN  IF ~fits /\ bits # 0
        THEN [n |-> i + 1, value |-> InvalidDataAsUnsigned]
        ELSE IF i + 1 = 8 /\ more = 1
        THEN [n |-> i + 1, value |-> InvalidDataAsUnsigned]
        ELSE IF more = 1
        THEN GetLeb128Loop(bytes, pos, i + 1, len1)
        ELSE [n |-> i + 1, value |-> len1]

get_leb128(bytes, pos) == GetLeb128Loop(bytes, pos, 0, Zero32)

\* parse_obu_header() of the demuxer on buf, of which at most
\* MAX_IAMF_OBU_HEADER_SIZE bytes are looked at; skip_samples and
\* discard_padding say that the caller passes a pointer for the field, a
\* field without one is not read.  size is the value that
\* is returned when err is OK; obu_size and start_pos are modulo 2^32 in
\* the code and are kept as integers here; the values read for
\* skip_samples and discard_padding are unsigned, as groups of 7 bits.
MAX_IAMF_OBU_HEADER_SIZE == 25
HeaderFail ==
    [err |-> AVERROR_INVALIDDATA, size |-> 0, type |-> 0, obu_size |-> 0,
     start_pos |-> 0, skip_samples |-> Zero32, discard_padding |-> Zero32]
parse_obu_header(buf, skip_samples, discard_padding) ==
    LET avail    == IF Len(buf) < MAX_IAMF_OBU_HEADER_SIZE THEN Len(buf)
                    ELSE MAX_IAMF_OBU_HEADER_SIZE
        head     == ReadByte(buf, 0)
        type     == head \div 8
        trimming == (head \div 2) % 2
        extension_flag == head % 2
        size_leb == get_leb128(buf, 1)
        start    == 1 + size_leb.n
        skip     == IF skip_samples /\ trimming = 1
                    THEN get_leb128(buf, start)
                    ELSE [n |-> 0, value |-> Zero32]
        discard  == IF discard_padding /\ trimming = 1
                    THEN get_leb128(buf, start + skip.n)
                    ELSE [n |-> 0, value |-> Zero32]
        at_ext   == start + skip.n + discard.n
        ext      == IF extension_flag = 1 THEN get_leb128(buf, at_ext)
                    ELSE [n |-> 0, value |-> Zero32]
    IN  IF size_leb.value[5] >= 8
        THEN HeaderFail
        ELSE IF extension_flag = 1 /\ ext.value[5] >= 1
        THEN HeaderFail
        ELSE LET obu_size == Value31(size_leb.value)
                 count    == at_ext + ext.n + SmallValue(ext.value)
             IN  IF count > avail
                 THEN HeaderFail
                 ELSE IF obu_size > INT_MAX - start
                 THEN HeaderFail
                 ELSE [err  |-> OK,
                       size |-> obu_size + start,
                       type |-> type,
                       obu_size  |-> obu_size - (count - start),
                       start_pos |-> count,
                       skip_samples    |-> skip.value,
                       discard_padding |-> discard.value]

\* ------------------------------------------------- the end of a reader
AV_EF_EXPLODE  == "AV_EF_EXPLODE"
AV_LOG_ERROR   == "AV_LOG_ERROR"
AV_LOG_WARNING == "AV_LOG_WARNING"
\* What codec_config_obu, audio_element_obu, mix_presentation_obu and
\* parameter_block_obu do once the fields of the OBU are parsed: len is the
\* size the OBU declares, tell the number of bytes that were read of it,
\* error_recognition the flags of the AVFormatContext.  log is the level of
\* the message, "" when there is none; ret is the value of the reader.
Underread(error_recognition, len, tell) ==
    LET left  == len - tell
        level == IF AV_EF_EXPLODE \in error_recognition THEN AV_LOG_ERROR
                 ELSE AV_LOG_WARNING
    IN  [left |-> left,
         log  |-> IF left # 0 THEN level ELSE "",
         ret  |-> OK]

\* ------------------------------------------------------------ iamf_probe
AVPROBE_SCORE_EXTENSION == 50
\* MKBETAG('i','a','m','f') as the bytes AV_RB32 reads.
IamfTag == <<105, 97, 109, 102>>

\* get_score with the test of *seq for an Audio Frame left out.
get_score_NoSeq(buf, type, seq) ==
    IF type = IAMF_OBU_IA_SEQUENCE_HEADER
    THEN IF Len(buf) < 4 \/ SubSeq(buf, 1, 4) # IamfTag
         THEN [ret |-> 0, seq |-> seq]
         ELSE [ret |-> -1, seq |-> 1]
    ELSE IF /\ type >= IAMF_OBU_IA_CODEC_CONFIG
            /\ type <= IAMF_OBU_IA_TEMPORAL_DELIMITER
    THEN [ret |-> IF seq # 0 THEN -1 ELSE 0, seq |-> seq]
    ELSE IF /\ type >= IAMF_OBU_IA_AUDIO_FRAME
            /\ type <= IAMF_OBU_IA_AUDIO_FRAME_ID17
    THEN [ret |-> AVPROBE_SCORE_EXTENSION + 1, seq |-> seq]
    ELSE [ret |-> 0, seq |-> seq]

\* get_score on the bytes behind the header of an OBU of the type: ret is
\* the score, -1 to go on with the next OBU; seq is *seq afterwards.
get_score(buf, type, seq) ==
    IF type = IAMF_OBU_IA_SEQUENCE_HEADER
    THEN IF Len(buf) < 4 \/ SubSeq(buf, 1, 4) # IamfTag
         THEN [ret |-> 0, seq |-> seq]
         ELSE [ret |-> -1, seq |-> 1]
    ELSE IF /\ type >= IAMF_OBU_IA_CODEC_CONFIG
            /\ type <= IAMF_OBU_IA_TEMPORAL_DELIMITER
    THEN [ret |-> IF seq # 0 THEN -1 ELSE 0, seq |-> seq]
    ELSE IF /\ type >= IAMF_OBU_IA_AUDIO_FRAME
            /\ type <= IAMF_OBU_IA_AUDIO_FRAME_ID17
    THEN [ret |-> IF seq # 0 THEN AVPROBE_SCORE_EXTENSION + 1 ELSE 0,
          seq |-> seq]
    ELSE [ret |-> 0, seq |-> seq]

\* The loop of iamf_probe on the buffer from offset cnt: ret is the score,
\* seen the OBUs whose header was parsed, each with the offset of its header
\* and of its payload.
RECURSIVE ProbeFrom(_, _, _, _)
ProbeFrom(buf, cnt, seq, seen) ==
    LET h == parse_obu_header(SubSeq(buf, cnt + 1, Len(buf)), FALSE, FALSE)
        payload == SubSeq(buf, cnt + h.start_pos + 1, Len(buf))
        s    == get_score(payload, h.type, seq)
        obu  == [type |-> h.type, at |-> cnt, data |-> cnt + h.start_pos]
        left == Len(buf) - cnt
    IN  IF h.err # OK
        THEN [ret |-> 0, seen |-> seen]
        ELSE IF s.ret >= 0
        THEN [ret |-> s.ret, seen |-> Append(seen, obu)]
        ELSE ProbeFrom(buf, cnt + (IF h.size < left THEN h.size ELSE left),
                       s.seq, Append(seen, obu))

iamf_probe(buf) == ProbeFrom(buf, 0, 0, <<>>)

\* ------------------------------------------------------ AV1 OBU framing
AVERROR_ERANGE == "AVERROR(ERANGE)"
\* leb128() of av1_parse.h on the bytes from position pos (0-based): value
\* is the int64_t that is returned, as eight groups of 7 bits.
RECURSIVE Leb128Loop(_, _, _, _)
Leb128Loop(bytes, pos, i, ret) ==
    IF i >= 8
    THEN [n |-> 8, value |-> ret]
    ELSE LET byte == ReadByte(bytes, pos + i)
             ret1 == [ret EXCEPT ![i + 1] = byte % 128]
         IN  IF byte \div 128 = 0
             THEN [n |-> i + 1, value |-> ret1]
             ELSE Leb128Loop(bytes, pos, i + 1, ret1)

leb128(bytes, pos) == Leb128Loop(bytes, pos, 0, [i \in 1..8 |-> 0])

\* An obu_size above INT_MAX / 8 is only ever rejected: every such value
\* is kept as the least of them.
ObuSizeLimit == 268435455
ObuSizeOf(value) ==
    IF \E i \in 5..8 : value[i] # 0 THEN ObuSizeLimit + 1
    ELSE SmallValue(value)

\* parse_obu_header() of av1_parse.c on buf, which holds a byte at least.
av1_parse_obu_header(buf) ==
    LET head           == buf[1]
        forbidden      == head \div 128
        type           == (head \div 8) % 16
        extension_flag == (head \div 4) % 2
        has_size_flag  == (head \div 2) % 2
        size_leb       == leb128(buf, 1 + extension_flag)
    IN  IF forbidden # 0
        THEN [err |-> AVERROR_INVALIDDATA, type |-> 0, obu_size |-> 0,
              start_pos |-> 0]
        ELSE IF has_size_flag = 1
        THEN [err |-> OK, type |-> type,
              obu_size  |-> ObuSizeOf(size_leb.value),
              start_pos |-> 1 + extension_flag + size_leb.n]
        ELSE [err |-> OK, type |-> type,
              obu_size  |-> Len(buf) - 1 - extension_flag,
              start_pos |-> 1 + extension_flag]

\* ff_av1_extract_obu() on buf: length is the value that is returned when
\* err is OK, the OBU is [type, size, raw_size].
ff_av1_extract_obu(buf) ==
    LET h == av1_parse_obu_header(buf)
    IN  IF h.err # OK
        THEN [err |-> h.err, length |-> 0, type |-> 0, size |-> 0]
        ELSE IF h.obu_size > ObuSizeLimit \/ h.obu_size < 0
        THEN [err |-> AVERROR_ERANGE, length |-> 0, type |-> 0, size |-> 0]
        ELSE [err |-> OK, length |-> h.obu_size + h.start_pos,
              type |-> h.type, size |-> h.obu_size]

\* The loop of ff_av1_packet_split(): at is the offset of the byte reader,
\* which bytestream2_skip() never moves past the end of the buffer; every
\* OBU is kept with the offset it starts at.
RECURSIVE PacketSplitFrom(_, _, _)
PacketSplitFrom(buf, at, obus) ==
    IF Len(buf) - at < 1
    THEN [ret |-> OK, obus |-> obus]
    ELSE LET rest == SubSeq(buf, at + 1, Len(buf))
             o    == ff_av1_extract_obu(rest)
             next == IF at + o.length > Len(buf) THEN Len(buf)
                     ELSE at + o.length
         IN  IF o.err # OK
             THEN [ret |-> o.err, obus |-> obus]
             ELSE PacketSplitFrom(buf, next,
                      Append(obus, [type |-> o.type, at |-> at,
                                    size |-> o.size,
                                    raw_size |-> o.length]))

ff_av1_packet_split(buf) == PacketSplitFrom(buf, 0, <<>>)

\* ------------------------------------------------------ MPEG-2 fragments
\* avpriv_find_start_code on data from offset p: the offset behind the
\* first start code (00 00 01 and its identifier byte) that begins at p or
\* later, the size of the data when there is none.
find_start_code(data, p) ==
    LET found == {q \in (p + 4)..Len(data) :
                     /\ data[q - 3] = 0
                     /\ data[q - 2] = 0
                     /\ data[q - 1] = 1}
    IN  IF found = {} THEN Len(data)
        ELSE CHOOSE q \in found : \A k \in found : q <= k

\* The bytes of data from offset from (0-based), size of them.
Bytes(data, from, size) == [k \in 1..size |-> data[from + k]]

\* The loop of cbs_mpeg2_split_fragment: start is the offset behind the
\* start code of the unit to insert.
RECURSIVE SplitUnitsFrom(_, _, _)
SplitUnitsFrom(data, start, units) ==
    LET end       == find_start_code(data, start)
        last      == end = Len(data)
        unit_size == IF last THEN end - (start - 1)
                     ELSE (end - 4) - (start - 1)
        unit_data == Bytes(data, start - 1, unit_size)
        unit      == [type |-> unit_data[1], data |-> unit_data]
    IN  IF last THEN Append(units, unit)
        ELSE SplitUnitsFrom(data, end, Append(units, unit))

\* cbs_mpeg2_split_fragment on the data of a fragment.  Without data both
\* searches return the end, which is the start of the data: start_code
\* keeps its initial value -1, the unit has type 0xff and size 1, and its
\* data pointer is data - 1, in front of the buffer, where the byte before
\* is found.
cbs_mpeg2_split_fragment(data, before) ==
    IF Len(data) = 0
    THEN [units |-> <<[type |-> 255, data |-> <<before>>]>>, ret |-> OK]
    ELSE [units |-> SplitUnitsFrom(data, find_start_code(data, 0), <<>>),
          ret   |-> OK]

\* cbs_mpeg2_assemble_fragment: a start code prefix in front of the data
\* of every unit.
RECURSIVE AssembleFrom(_, _)
AssembleFrom(units, i) ==
    IF i > Len(units) THEN <<>>
    ELSE <<0, 0, 1>> \o units[i].data \o AssembleFrom(units, i + 1)
cbs_mpeg2_assemble_fragment(units) ==
    [data |-> AssembleFrom(units, 1), ret |-> OK]

\* ======================================================= channel layouts
AVERROR_EINVAL == "AVERROR(EINVAL)"
AVERROR_PATCHWELCOME == "AVERROR_PATCHWELCOME"
AV_CHANNEL_ORDER_UNSPEC    == "AV_CHANNEL_ORDER_UNSPEC"
AV_CHANNEL_ORDER_NATIVE    == "AV_CHANNEL_ORDER_NATIVE"
AV_CHANNEL_ORDER_CUSTOM    == "AV_CHANNEL_ORDER_CUSTOM"
AV_CHANNEL_ORDER_AMBISONIC == "AV_CHANNEL_ORDER_AMBISONIC"
\* enum AVChannel.
AV_CHAN_NONE           == -1
AV_CHAN_AMBISONIC_BASE == 1024
AV_CHAN_AMBISONIC_END  == 2047
CHAN_IS_AMBI(x) == x >= AV_CHAN_AMBISONIC_BASE /\ x <= AV_CHAN_AMBISONIC_END

\* An AVChannelLayout: mask is the set of the bits of u.mask, map the ids
\* of u.map.
Layout(order, nb_channels, mask, map) ==
    [order |-> order, nb_channels |-> nb_channels, mask |-> mask,
     map |-> map]

\* The channel of the native layout with idx set bits below it, found by
\* the loop over the 64 bits of the mask; AV_CHAN_NONE when the loop ends.
NativeChannel(mask, idx) ==
    LET found == {i \in 0..63 :
                     /\ i \in mask
                     /\ Cardinality({j \in mask : j < i}) = idx}
    IN  IF found = {} THEN AV_CHAN_NONE ELSE CHOOSE i \in found : TRUE

\* av_channel_layout_channel_from_index; idx is unsigned.
av_channel_layout_channel_from_index(channel_layout, idx) ==
    IF idx >= channel_layout.nb_channels
    THEN AV_CHAN_NONE
    ELSE CASE channel_layout.order = AV_CHANNEL_ORDER_CUSTOM ->
                 channel_layout.map[idx + 1]
           [] channel_layout.order = AV_CHANNEL_ORDER_AMBISONIC ->
                 AV_CHAN_AMBISONIC_BASE + idx
           [] channel_layout.order = AV_CHANNEL_ORDER_NATIVE ->
                 NativeChannel(channel_layout.mask, idx)
           [] OTHER -> AV_CHAN_NONE

\* What index_from_channel returns.
Index(i)     == [err |-> OK, index |-> i]
NoIndex      == [err |-> AVERROR_EINVAL, index |-> 0]

\* 1ULL << channel is defined for a channel from 0 to 63.
ShiftDefined(channel) == channel >= 0 /\ channel <= 63

\* The native case of av_channel_layout_index_from_channel: the results it
\* can have.  For a channel that is no bit of the mask the shift is
\* undefined: the processor may reduce the count modulo 64 and test that
\* bit, or the test may find no bit.
NativeIndex(mask, channel) ==
    LET bit   == channel % 64
        below == Cardinality({j \in mask : j < bit})
    IN  IF ShiftDefined(channel)
        THEN {IF channel \in mask THEN Index(below) ELSE NoIndex}
        ELSE {NoIndex} \cup (IF bit \in mask THEN {Index(below)} ELSE {})

\* The custom case: the first index whose id is the channel.
CustomIndex(map, nb_channels, channel) ==
    LET found == {i \in 0..(nb_channels - 1) : map[i + 1] = channel}
    IN  IF found = {} THEN NoIndex
        ELSE Index(CHOOSE i \in found : \A k \in found : i <= k)

\* av_channel_layout_index_from_channel: the set of its possible results.
av_channel_layout_index_from_channel(channel_layout, channel) ==
    CASE channel_layout.order = AV_CHANNEL_ORDER_CUSTOM ->
            {CustomIndex(channel_layout.map, channel_layout.nb_channels,
                         channel)}
      [] channel_layout.order = AV_CHANNEL_ORDER_AMBISONIC ->
            {IF \/ ~CHAN_IS_AMBI(channel)
                \/ channel - AV_CHAN_AMBISONIC_BASE
                      >= channel_layout.nb_channels
             THEN NoIndex
             ELSE Index(channel - AV_CHAN_AMBISONIC_BASE)}
      [] channel_layout.order = AV_CHANNEL_ORDER_NATIVE ->
            NativeIndex(channel_layout.mask, channel)
      [] OTHER -> {NoIndex}

\* -------------------------------------------------------- the IAMF muxer
AVMEDIA_TYPE_AUDIO == "AVMEDIA_TYPE_AUDIO"
AVMEDIA_TYPE_VIDEO == "AVMEDIA_TYPE_VIDEO"
\* MKTAG('m','p','4','a'), 'Opus', 'fLaC' and 'ipcm'.
SupportedTags == {"mp4a", "Opus", "fLaC", "ipcm"}
AV_STREAM_GROUP_PARAMS_IAMF_AUDIO_ELEMENT ==
    "AV_STREAM_GROUP_PARAMS_IAMF_AUDIO_ELEMENT"
AV_STREAM_GROUP_PARAMS_IAMF_MIX_PRESENTATION ==
    "AV_STREAM_GROUP_PARAMS_IAMF_MIX_PRESENTATION"
\* The types that are not above AV_IAMF_PARAMETER_DEFINITION_RECON_GAIN.
KnownParamTypes ==
    {AV_IAMF_PARAMETER_DEFINITION_MIX_GAIN,
     AV_IAMF_PARAMETER_DEFINITION_DEMIXING,
     AV_IAMF_PARAMETER_DEFINITION_RECON_GAIN}

\* An AVIAMFParamDefinition with one subblock; value is the field of the
\* subblock that is written (start_point_value in 1/256, dmixp_mode).
ParamDefinition(parameter_id, type, mode, value) ==
    [parameter_id |-> parameter_id, param_definition_type |-> type,
     param_definition_mode |-> mode, duration |-> 1,
     constant_subblock_duration |-> 1, num_subblocks |-> 1,
     value |-> value]
\* A pointer to an AVIAMFParamDefinition that is NULL.
NullParam == ParamDefinition(0, "NULL", 0, 0)

\* An AVStream: id, codecpar->codec_type, codecpar->codec_tag and
\* codecpar->ch_layout.nb_channels.
MuxStream(id, codec_type, codec_tag, nb_channels) ==
    [id |-> id, codec_type |-> codec_type, codec_tag |-> codec_tag,
     nb_channels |-> nb_channels]
\* An audio element stream group over the streams (indices from 1) with a
\* channel based element of one stereo layer without recon gain.
AudioElementGroup(id, streams, demixing_info, recon_gain_info) ==
    [type |-> AV_STREAM_GROUP_PARAMS_IAMF_AUDIO_ELEMENT, id |-> id,
     streams |-> streams, codec_config_id |-> 0,
     demixing_info |-> demixing_info, recon_gain_info |-> recon_gain_info,
     submixes |-> <<>>]
\* A mix presentation stream group; a submix is output_mix_config and the
\* elements, an element is audio_element (the index of its stream group)
\* and element_mix_config.
MixPresentationGroup(id, streams, submixes) ==
    [type |-> AV_STREAM_GROUP_PARAMS_IAMF_MIX_PRESENTATION, id |-> id,
     streams |-> streams, codec_config_id |-> 0,
     demixing_info |-> NullParam, recon_gain_info |-> NullParam,
     submixes |-> submixes]

\* IAMFMuxContext after allocation.
NoMuxContext ==
    [stream_groups |-> <<>>, nb_stream_groups |-> 0,
     codec_configs |-> <<>>,
     audio_elements |-> <<>>, mix_presentations |-> <<>>,
     param_definitions |-> <<>>, first_stream_id |-> 0]

\* iamf_generate_stream_group: one audio element over every stream, with
\* demixing_info 998 and recon_gain_info 999.
iamf_generate_stream_group(s, c) ==
    [c EXCEPT
        !.stream_groups = Append(@,
            AudioElementGroup(c.nb_stream_groups,
                [i \in 1..Len(s.streams) |-> i],
                ParamDefinition(998, AV_IAMF_PARAMETER_DEFINITION_DEMIXING,
                                0, 0),
                ParamDefinition(999,
                                AV_IAMF_PARAMETER_DEFINITION_RECON_GAIN,
                                0, 0))),
        !.nb_stream_groups = @ + 1]

\* iamf_generate_mix_presentations: one mix presentation with one submix
\* whose element is the first stream group; both mix configs have id 1.
iamf_generate_mix_presentations(s, c) ==
    LET config == ParamDefinition(1, AV_IAMF_PARAMETER_DEFINITION_MIX_GAIN,
                                  1, 0)
    IN  [c EXCEPT
            !.stream_groups = Append(@,
                MixPresentationGroup(c.nb_stream_groups,
                    [i \in 1..Len(s.streams) |-> i],
                    <<[output_mix_config |-> config,
                       elements |-> <<[audio_element |-> 1,
                                       element_mix_config |-> config]>>]>>)),
            !.nb_stream_groups = @ + 1]

\* get_param_definition of the muxer: the index of the first definition
\* with the id, 0: NULL.
mux_get_param_definition(c, parameter_id) ==
    LET found == {i \in 1..Len(c.param_definitions) :
                     c.param_definitions[i].param.parameter_id
                         = parameter_id}
    IN  IF found = {} THEN 0
        ELSE CHOOSE i \in found : \A k \in found : i <= k

\* add_param_definition: audio_element is NULL (0).
add_param_definition(c, param) ==
    [c EXCEPT !.param_definitions =
                  Append(@, [param |-> param, audio_element |-> 0])]

\* The definition of param's id, added when there is none: the context
\* and the index of the definition.
ParamDefinitionOf(c, param) ==
    LET d == mux_get_param_definition(c, param.parameter_id)
    IN  IF d # 0 THEN [c |-> c, d |-> d]
        ELSE [c |-> add_param_definition(c, param),
              d |-> Len(c.param_definitions) + 1]

\* param_definition->audio_element = the element of stream group stg.
WithAudioElement(c, param, stg) ==
    LET r == ParamDefinitionOf(c, param)
    IN  [r.c EXCEPT !.param_definitions[r.d].audio_element = stg]

\* iamf_init, the loop over the streams: the first stream that is not
\* audio with a supported tag, or has more than two channels, fails; a
\* stream without id is given the next one.
RECURSIVE CheckStreams(_, _, _)
CheckStreams(streams, i, stream_id) ==
    IF i > Len(streams) THEN [ret |-> OK, streams |-> streams]
    ELSE IF \/ streams[i].codec_type # AVMEDIA_TYPE_AUDIO
            \/ streams[i].codec_tag \notin SupportedTags
    THEN [ret |-> AVERROR_EINVAL, streams |-> streams]
    ELSE IF streams[i].nb_channels > 2
    THEN [ret |-> AVERROR_EINVAL, streams |-> streams]
    ELSE IF streams[i].id = 0
    THEN CheckStreams([streams EXCEPT ![i].id = stream_id + 1], i + 1,
                      stream_id + 1)
    ELSE CheckStreams(streams, i + 1, stream_id)

\* The number of stream groups of the type.
NbGroups(c, type) ==
    Cardinality({i \in 1..c.nb_stream_groups :
                    c.stream_groups[i].type = type})

\* The test of the numbers of audio elements and mix presentations.
GroupCountsInvalid(nb_audio_elements, nb_mix_presentations) ==
    \/ (nb_audio_elements < 1 /\ nb_audio_elements > 2)
    \/ nb_mix_presentations < 1

\* iamf_init, the search for the codec config of stream group i (from 1):
\* every round of the loop over j reads c->codec_configs[i], the element of
\* the stream group's index, and not the one of j.  An element past the
\* end of the array has the codec_config_id heap.  The result is the
\* position (from 1) of the element taken, 0 for NULL.
FindCodecConfig(c, i, codec_config_id, heap) ==
    IF Len(c.codec_configs) = 0 THEN 0
    ELSE LET read == IF i <= Len(c.codec_configs)
                     THEN c.codec_configs[i].codec_config_id
                     ELSE heap
         IN  IF read = codec_config_id THEN i ELSE 0

\* fill_codec_config on the element at position k, for a stream without
\* extradata: an element past the end of the array is not one of
\* c->codec_configs, and the write leaves the array as it is.
fill_codec_config(c, k, stg, st) ==
    IF k <= Len(c.codec_configs)
    THEN [c EXCEPT !.codec_configs[k] =
                       [codec_config_id |-> stg.codec_config_id,
                        codec_tag |-> st.codec_tag]]
    ELSE c

\* iamf_init, the loop over the audio elements from stream group i; s is
\* the AVFormatContext and what a read past the end of c->codec_configs
\* finds.
RECURSIVE InitAudioElements(_, _, _)
InitAudioElements(c, i, s) ==
    IF i > c.nb_stream_groups THEN [ret |-> OK, c |-> c]
    ELSE
    LET stg == c.stream_groups[i]
        found == FindCodecConfig(c, i, stg.codec_config_id, s.heap)
        c0  == IF found = 0
               THEN [c EXCEPT !.codec_configs =
                         Append(@, [codec_config_id |-> 0,
                                    codec_tag |-> "none"])]
               ELSE c
        k   == IF found = 0 THEN Len(c0.codec_configs) ELSE found
        cc  == fill_codec_config(c0, k, stg, s.streams[stg.streams[1]])
        c1  == [cc EXCEPT !.audio_elements =
                   Append(@, [stream_group |-> i,
                              codec_config |-> k,
                              audio_substreams |-> stg.streams])]
        c2  == IF stg.demixing_info # NullParam
               THEN WithAudioElement(c1, stg.demixing_info, i) ELSE c1
        c3  == IF stg.recon_gain_info # NullParam
               THEN WithAudioElement(c2, stg.recon_gain_info, i) ELSE c2
    IN  IF stg.type # AV_STREAM_GROUP_PARAMS_IAMF_AUDIO_ELEMENT
        THEN InitAudioElements(c, i + 1, s)
        ELSE IF /\ stg.demixing_info # NullParam
                /\ stg.demixing_info.num_subblocks # 1
        THEN [ret |-> AVERROR_EINVAL, c |-> c1]
        ELSE IF /\ stg.recon_gain_info # NullParam
                /\ stg.recon_gain_info.num_subblocks # 1
        THEN [ret |-> AVERROR_EINVAL, c |-> c2]
        ELSE InitAudioElements(c3, i + 1, s)

\* iamf_init, the loop over the elements of a submix from element j.
RECURSIVE InitSubmixElements(_, _, _)
InitSubmixElements(c, elements, j) ==
    IF j > Len(elements) THEN [ret |-> OK, c |-> c]
    ELSE IF elements[j].element_mix_config = NullParam
    THEN [ret |-> AVERROR_EINVAL, c |-> c]
    ELSE InitSubmixElements(
             WithAudioElement(c, elements[j].element_mix_config,
                              elements[j].audio_element),
             elements, j + 1)

\* iamf_init, the loop over the submixes of a mix presentation from i.
RECURSIVE InitSubmixes(_, _, _)
InitSubmixes(c, submixes, i) ==
    IF i > Len(submixes) THEN [ret |-> OK, c |-> c]
    ELSE IF submixes[i].output_mix_config = NullParam
    THEN [ret |-> AVERROR_EINVAL, c |-> c]
    ELSE
    LET r == InitSubmixElements(
                 ParamDefinitionOf(c, submixes[i].output_mix_config).c,
                 submixes[i].elements, 1)
    IN  IF r.ret # OK THEN r ELSE InitSubmixes(r.c, submixes, i + 1)

\* iamf_init, the loop over the mix presentations from stream group i.
RECURSIVE InitMixPresentations(_, _)
InitMixPresentations(c, i) ==
    IF i > c.nb_stream_groups THEN [ret |-> OK, c |-> c]
    ELSE IF c.stream_groups[i].type
                # AV_STREAM_GROUP_PARAMS_IAMF_MIX_PRESENTATION
    THEN InitMixPresentations(c, i + 1)
    ELSE
    LET r == InitSubmixes(
                 [c EXCEPT !.mix_presentations =
                               Append(@, [stream_group |-> i])],
                 c.stream_groups[i].submixes, 1)
    IN  IF r.ret # OK THEN r ELSE InitMixPresentations(r.c, i + 1)

\* iamf_init on the AVFormatContext s (streams, stream_groups, and heap,
\* what the memory after c->codec_configs holds): ret, and the
\* AVFormatContext and the IAMFMuxContext that it leaves.
iamf_init(s) ==
    LET Fail(s1, c1) == [ret |-> AVERROR_EINVAL, s |-> s1, c |-> c1]
        checked == CheckStreams(s.streams, 1, 0)
        s1 == [s EXCEPT !.streams = checked.streams]
        c1 == IF Len(s.stream_groups) # 0
              THEN [NoMuxContext EXCEPT
                       !.stream_groups = s.stream_groups,
                       !.nb_stream_groups = Len(s.stream_groups)]
              ELSE iamf_generate_mix_presentations(s1,
                       iamf_generate_stream_group(s1, NoMuxContext))
        elements == InitAudioElements(c1, 1, s1)
        mixes    == InitMixPresentations(elements.c, 1)
    IN  IF Len(s.streams) = 0 THEN Fail(s, NoMuxContext)
        ELSE IF checked.ret # OK THEN Fail(s1, NoMuxContext)
        ELSE IF GroupCountsInvalid(
                    NbGroups(c1, AV_STREAM_GROUP_PARAMS_IAMF_AUDIO_ELEMENT),
                    NbGroups(c1,
                        AV_STREAM_GROUP_PARAMS_IAMF_MIX_PRESENTATION))
        THEN Fail(s1, c1)
        ELSE IF elements.ret # OK THEN Fail(s1, elements.c)
        ELSE IF mixes.ret # OK THEN Fail(s1, mixes.c)
        ELSE [ret |-> OK, s |-> s1,
              c |-> [mixes.c EXCEPT !.first_stream_id = s1.streams[1].id]]

\* A non-negative int as groups of 7 bits, the lowest first.
GroupsOf(n) == [i \in 1..5 |-> (n \div (128 ^ (i - 1))) % 128]

\* The byte that put_bits(&pb, 5, type), put_bits(&pb, 3, 0) leave in the
\* header: the low five bits of type above three zero bits.
ObuHeaderByte(type) == (type % 32) * 8

\* What one call has written to s->pb for an OBU: the header byte and,
\* when the call came to write them, the size and the body.
WrittenObu(type, body) ==
    [header |-> ObuHeaderByte(type), complete |-> TRUE,
     size |-> EncLeb(GroupsOf(Len(body))), body |-> body]
WrittenHeader(type) ==
    [header |-> ObuHeaderByte(type), complete |-> FALSE,
     size |-> <<>>, body |-> <<>>]

\* write_parameter_block, the bytes of the subblock of a param of mode 0
\* or of constant_subblock_duration > 0: a mix gain of animation type 0
\* with its start point as 16 bits, a demixing mode in the top three bits
\* of a byte, a recon gain for an audio element without layers that have
\* recon_gain_is_present.
SubblockBytes(param) ==
    CASE param.param_definition_type = AV_IAMF_PARAMETER_DEFINITION_MIX_GAIN
            -> EncLeb(GroupsOf(0))
               \o <<(param.value \div 256) % 256, param.value % 256>>
      [] param.param_definition_type = AV_IAMF_PARAMETER_DEFINITION_DEMIXING
            -> <<(param.value * 32) % 256>>
      [] OTHER -> <<>>

\* write_parameter_block(s, param) with out written to s->pb before: ret
\* and what s->pb holds afterwards.
write_parameter_block(c, out, param) ==
    LET d    == mux_get_param_definition(c, param.parameter_id)
        def  == c.param_definitions[d]
        body ==
            EncLeb(GroupsOf(param.parameter_id))
            \o (IF param.param_definition_mode # 0
                THEN EncLeb(GroupsOf(param.duration))
                     \o EncLeb(GroupsOf(param.constant_subblock_duration))
                     \o (IF param.constant_subblock_duration = 0
                         THEN EncLeb(GroupsOf(param.num_subblocks))
                         ELSE <<>>)
                ELSE <<>>)
            \o SubblockBytes(param)
    IN  IF param.param_definition_type \notin KnownParamTypes
        THEN [ret |-> OK, out |-> out]
        ELSE IF d = 0
        THEN [ret |-> AVERROR_EINVAL, out |-> out]
        ELSE IF \/ param.param_definition_type
                       # def.param.param_definition_type
                \/ param.param_definition_mode
                       # def.param.param_definition_mode
        THEN [ret |-> AVERROR_EINVAL, out |-> out]
        ELSE IF /\ param.param_definition_type
                       = AV_IAMF_PARAMETER_DEFINITION_RECON_GAIN
                /\ param.num_subblocks > 0
                /\ def.audio_element = 0
        THEN [ret |-> AVERROR_EINVAL,
              out |-> Append(out, WrittenHeader(IAMF_OBU_IA_PARAMETER_BLOCK))]
        ELSE [ret |-> OK,
              out |-> Append(out,
                          WrittenObu(IAMF_OBU_IA_PARAMETER_BLOCK, body))]

\* The side data of the packet that iamf_write_packet looks at, in the
\* order in which it writes them.
SideDataParams(pkt) ==
    SelectSeq(<<pkt.mix, pkt.demix, pkt.recon>>,
              LAMBDA param : param # NullParam)

\* iamf_write_packet, the parameter blocks: the first that fails ends the
\* call.
RECURSIVE WriteParameterBlocks(_, _, _, _)
WriteParameterBlocks(c, out, params, i) ==
    IF i > Len(params) THEN [ret |-> OK, out |-> out]
    ELSE LET r == write_parameter_block(c, out, params[i])
         IN  IF r.ret # OK THEN r
             ELSE WriteParameterBlocks(c, r.out, params, i + 1)

\* The test for the packets that are given parameter blocks.
OnFirstStream(s, c, st) ==
    Len(s.stream_groups) # 0 /\ st.id = c.first_stream_id

\* The OBU type of the audio frame of a stream.
AudioFrameType(id) ==
    IF id <= 17 THEN id + IAMF_OBU_IA_AUDIO_FRAME_ID0
    ELSE IAMF_OBU_IA_AUDIO_FRAME

\* iamf_write_packet(s, pkt): ret and what the call has written to s->pb.
iamf_write_packet(s, c, pkt) ==
    LET st     == s.streams[pkt.stream_index + 1]
        type   == AudioFrameType(st.id)
        blocks == IF OnFirstStream(s, c, st)
                  THEN WriteParameterBlocks(c, <<>>, SideDataParams(pkt), 1)
                  ELSE [ret |-> OK, out |-> <<>>]
        dyn    == IF st.id > 17 THEN EncLeb(GroupsOf(st.id)) ELSE <<>>
    IN  IF blocks.ret # OK THEN blocks
        ELSE [ret |-> OK,
              out |-> Append(blocks.out, WrittenObu(type, dyn \o pkt.data))]

\* iamf_write_codec_config: AAC is not written.
iamf_write_codec_config(out, codec_config) ==
    IF codec_config.codec_tag = "mp4a"
    THEN [ret |-> AVERROR_PATCHWELCOME, out |-> out]
    ELSE [ret |-> OK,
          out |-> Append(out,
                      WrittenObu(IAMF_OBU_IA_CODEC_CONFIG,
                          EncLeb(GroupsOf(codec_config.codec_config_id))))]

\* iamf_write_audio_element and iamf_write_mixing_presentation, up to the
\* id of the stream group that opens the OBU.
WriteGroupObu(out, type, c, record) ==
    [ret |-> OK,
     out |-> Append(out,
                 WrittenObu(type,
                     EncLeb(GroupsOf(
                         c.stream_groups[record.stream_group].id))))]

\* iamf_write_header, one of the loops for (int i; i < nb; i++) with the
\* value i that the variable has when the loop is entered (from 0): the
\* records from i on are written, and the first that fails ends the call.
\* With i < 0 an element before the array is read, and the process is
\* taken to stop.
RECURSIVE HeaderLoop(_, _, _, _, _)
HeaderLoop(out, type, c, records, i) ==
    IF i < 0 THEN [ret |-> ABORTED, out |-> out]
    ELSE IF i >= Len(records) THEN [ret |-> OK, out |-> out]
    ELSE LET r == IF type = IAMF_OBU_IA_CODEC_CONFIG
                  THEN iamf_write_codec_config(out, records[i + 1])
                  ELSE WriteGroupObu(out, type, c, records[i + 1])
         IN  IF r.ret # OK THEN r
             ELSE HeaderLoop(r.out, type, c, records, i + 1)

\* The Sequence Header OBU: "iamf" and the two profile bytes.
WrittenSequenceHeader(c) ==
    LET profile == IF Len(c.audio_elements) > 1 THEN 1 ELSE 0
    IN  WrittenObu(IAMF_OBU_IA_SEQUENCE_HEADER,
                   <<105, 97, 109, 102, profile, profile>>)

\* iamf_write_header(s): ret and what the call has written to s->pb.  The
\* loop variables are not initialized: start[1], start[2], start[3] are
\* the values that they have.
iamf_write_header(c, start) ==
    LET configs == HeaderLoop(<<WrittenSequenceHeader(c)>>,
                              IAMF_OBU_IA_CODEC_CONFIG, c,
                              c.codec_configs, start[1])
        elements == HeaderLoop(configs.out, IAMF_OBU_IA_AUDIO_ELEMENT, c,
                               c.audio_elements, start[2])
        mixes    == HeaderLoop(elements.out, IAMF_OBU_IA_MIX_PRESENTATION,
                               c, c.mix_presentations, start[3])
    IN  IF configs.ret # OK THEN configs
        ELSE IF elements.ret # OK THEN elements
        ELSE mixes

\* What iamf_read_packet and audio_frame_obu take for the substream id of
\* a written OBU: err is "no audio frame" for the other OBU types.
ReadSubstreamId(obu) ==
    LET type == obu.header \div 8
        l    == DecLeb(obu.body, 0)
    IN  IF type = IAMF_OBU_IA_AUDIO_FRAME
        THEN [err |-> l.err, id |-> SmallValue(l.len)]
        ELSE IF /\ type >= IAMF_OBU_IA_AUDIO_FRAME_ID0
                /\ type <= IAMF_OBU_IA_AUDIO_FRAME_ID17
        THEN [err |-> OK, id |-> type - IAMF_OBU_IA_AUDIO_FRAME_ID0]
        ELSE [err |-> "no audio frame", id |-> 0]

\* ===================================================== post-processing
\* enum FFPostProcEnum.
FF_POSTPROC_TYPE_NONE   == 0
FF_POSTPROC_TYPE_CUSTOM == 1
FF_POSTPROC_TYPE_LCEVC  == 2
FF_POSTPROC_TYPE_NB     == 3
FF_POSTPROC_CAP_GET_BUFFER == 1
AVERROR_ENOSYS   == "AVERROR(ENOSYS)"
AVERROR_ENOMEM   == "AVERROR(ENOMEM)"
AVERROR_EXTERNAL == "AVERROR_EXTERNAL"
AVERROR_BUG      == "AVERROR_BUG"
\* What ff_postproc_is_open returns for a handle that is open.
IS_OPEN          == "1"

\* The threads that share the handle, and the calls that each makes.
MaxThreads == 2
MaxCalls   == 2
Threads    == 1..MaxThreads
\* What a call that has not locked the handle leaves of it.
Untouched == [type |-> "none", priv_data |-> "none"]
\* A thread that has made no call: pc is where it stands, fn and type the
\* call, ret what the call holds as its return value, calls the number of
\* calls made, left the handle as the call left it when it unlocked, for
\* a call that has locked it.
IdleThread ==
    [pc |-> "idle", fn |-> "none", type |-> FF_POSTPROC_TYPE_NONE,
     ret |-> NOT_CALLED, calls |-> 0, left |-> Untouched]
\* The FFPostProcInternal after ff_postproc_alloc: mutex is the thread that
\* holds it, 0 for none; table is post_process_table, the types of the
\* build; inits counts the returns of the init callback without error.
NoPostProc(table) ==
    [table |-> table, type |-> "NULL", caps |-> 0, priv_data |-> "NULL",
     mutex |-> 0, inits |-> 0, th |-> [t \in Threads |-> IdleThread]]

\* The fields of the handle that a call leaves.
Handle(P) == [type |-> P.type, priv_data |-> P.priv_data]
Closed    == [type |-> "NULL", priv_data |-> "NULL"]

\* ff_mutex_unlock and return ret, by thread t.
UnlockReturn(P, t, ret) ==
    [P EXCEPT !.mutex = 0,
              !.th[t].pc = "returned",
              !.th[t].ret = ret,
              !.th[t].left = Handle(P)]

\* The fail label of ff_postproc_init without the reset of the handle.
FailCleanup_Keeps(P, ret) == P

\* The fail label of ff_postproc_init: with ret < 0 the private data is
\* freed and the type is unset.
FailCleanup(P, ret) ==
    IF ret # OK
    THEN [P EXCEPT !.priv_data = "NULL", !.type = "NULL"]
    ELSE P

\* ----------------------------------------------------------------- state
VARIABLES
    inst,     \* the filter instance that is driven: its name
    fm,       \* AV1FMergeContext: temporal_unit and frag
    fm_bsf,   \* the merge filter's input: buffer_pkt and eof
    fm_out,   \* the result of the merge filter's last call: pkt and ret
    fm_last,  \* what the merge filter's last call started from
    fs,       \* AV1FSplitContext
    fs_bsf,   \* the split filter's input: buffer_pkt and eof
    fs_out,   \* the result of the split filter's last call: pkt, ret, abort
    fs_last,  \* what the split filter's last call started from
    pipe,     \* the packets passed from filter to filter, and the output
    iamf,     \* the IAMF demuxer: its context, its phase, the OBU it is at
    iamf_call,\* the IAMF demuxer's last call: its input and its result
    pure,     \* the argument and the result of a function without state
    pp        \* the FFPostProc that is shared, its mutex and the threads

vars == <<inst, fm, fm_bsf, fm_out, fm_last, fs, fs_bsf, fs_out, fs_last,
          pipe, iamf, iamf_call, pure, pp>>

MergeInit     == [temporal_unit |-> <<>>, frag |-> <<>>]
SplitInit     == [buffer_pkt |-> BlankPkt, temporal_unit |-> <<>>,
                  nb_frames |-> 0, cur_frame |-> 0, cur_frame_idx |-> 0,
                  last_frame_idx |-> 0]
BsfInit       == [buffer_pkt |-> BlankPkt, eof |-> FALSE]
\* No call has been made since the caller sent the input.
NoCall(violated) ==
    [called |-> FALSE, pkt |-> BlankPkt, eof |-> FALSE, ctx |-> MergeInit,
     violated |-> violated]

\* No packet travels between the filters.
NoPipe == [orig |-> BlankPkt, stream |-> <<>>, queue |-> <<>>, outs |-> <<>>]

\* Every variable but pure, before the first call.
InitRest ==
    /\ pipe    = NoPipe
    /\ fm      = MergeInit
    /\ fm_bsf  = BsfInit
    /\ fm_out  = [pkt |-> BlankPkt, ret |-> NOT_CALLED]
    /\ fm_last = NoCall(FALSE)
    /\ fs      = SplitInit
    /\ fs_bsf  = BsfInit
    /\ fs_out  = [pkt |-> BlankPkt, ret |-> NOT_CALLED, abort |-> FALSE]
    /\ fs_last = NoCall(FALSE)
    /\ iamf    = IamfInit
    /\ iamf_call = NoIamfCall
    /\ pp      = NoPostProc({})
InitAll == InitRest /\ pure = NoPure

mergeVars == <<fm, fm_bsf, fm_out, fm_last>>
splitVars == <<fs, fs_bsf, fs_out, fs_last>>
av1Vars   == <<mergeVars, splitVars, pipe>>
\* What the calls of the AV1 filters leave alone.
others    == <<iamf, iamf_call, pure, pp>>

\* ---------------------------------------------------- merge filter calls
\* The units the merge filter is fed.
MergeUnits   == {TemporalDelimiter, SequenceHeader, Frame(1), Forbidden}
MergePackets == Packets(MergeUnits, MaxUnits)

\* The call met a Temporal Delimiter in the middle of a packet.
MergeViolation(ctx, bsf) ==
    LET got == ff_bsf_get_packet_ref(bsf)
        rd  == ff_cbs_read_packet(got.pkt)
    IN  /\ got.err = OK
        /\ rd.err = OK
        /\ MisplacedDelimiter(rd.units) # 0

\* The caller of a pull loop sends input when the filter has asked for it.
MergeWantsInput ==
    /\ inst = "av1_frame_merge"
    /\ fm_bsf.buffer_pkt = BlankPkt
    /\ ~fm_bsf.eof
    /\ fm_out.ret \in {NOT_CALLED, AVERROR_EAGAIN}

\* av_bsf_send_packet: the next input packet.
MergeSend(p) ==
    /\ Len(fm.temporal_unit) + Len(p.units) <= MaxTU
    /\ fm_bsf'  = [fm_bsf EXCEPT !.buffer_pkt = p]
    /\ fm_last' = NoCall(fm_last.violated)
    /\ UNCHANGED <<inst, others, fm, fm_out, splitVars, pipe>>

\* av_bsf_send_packet with no packet: the end of the input.
MergeSendEOF ==
    /\ MergeWantsInput
    /\ fm_bsf'  = [fm_bsf EXCEPT !.eof = TRUE]
    /\ fm_last' = NoCall(fm_last.violated)
    /\ UNCHANGED <<inst, others, fm, fm_out, splitVars, pipe>>

\* av_bsf_receive_packet: one call of the filter.
MergeCall ==
    LET r == av1_frame_merge_filter(fm, fm_bsf)
    IN  /\ fm'      = r.ctx
        /\ fm_bsf'  = r.bsf
        /\ fm_out'  = [pkt |-> r.pkt, ret |-> r.ret]
        /\ fm_last' = [called |-> TRUE, pkt |-> fm_bsf.buffer_pkt,
                       eof |-> fm_bsf.eof, ctx |-> fm,
                       violated |-> \/ fm_last.violated
                                    \/ MergeViolation(fm, fm_bsf)]

MergeReceive ==
    /\ inst = "av1_frame_merge"
    /\ MergeCall
    /\ UNCHANGED <<inst, others, splitVars, pipe>>

\* av_bsf_flush: av1_frame_merge_flush resets both fragments.
MergeFlush ==
    /\ inst = "av1_frame_merge"
    /\ fm_bsf.eof
    /\ fm'      = MergeInit
    /\ fm_bsf'  = BsfInit
    /\ fm_out'  = [pkt |-> BlankPkt, ret |-> NOT_CALLED]
    /\ fm_last' = NoCall(FALSE)
    /\ UNCHANGED <<inst, others, splitVars, pipe>>

NextMerge ==
    \/ MergeWantsInput /\ \E p \in MergePackets : MergeSend(p)
    \/ MergeSendEOF
    \/ MergeReceive
    \/ MergeFlush

InitMerge == inst = "av1_frame_merge" /\ InitAll
SpecMerge == InitMerge /\ [][NextMerge]_vars

\* ---------------------------------------------------- split filter calls
\* The units the split filter is fed.
SplitUnits ==
    {TemporalDelimiter, Forbidden, Frame(0), Frame(1),
     TileGroup(0), TileGroup(1),
     FrameHeader(1, 1, 1), FrameHeader(0, 0, 1), FrameHeader(0, 1, 2)}
SplitPackets == Packets(SplitUnits, MaxUnits)

\* The call met a second Frame or Frame Header before a split point.
SplitViolation(ctx, bsf) ==
    av1_frame_split_filter(ctx, bsf).violation

\* The caller of a pull loop sends input when the filter has asked for it.
SplitWantsInput ==
    /\ inst = "av1_frame_split"
    /\ ~fs_out.abort
    /\ fs_bsf.buffer_pkt = BlankPkt
    /\ ~fs_bsf.eof
    /\ fs_out.ret \in {NOT_CALLED, AVERROR_EAGAIN}

\* av_bsf_send_packet: the next input packet.
SplitSend(p) ==
    /\ fs_bsf'  = [fs_bsf EXCEPT !.buffer_pkt = p]
    /\ fs_last' = [NoCall(fs_last.violated) EXCEPT !.ctx = SplitInit]
    /\ UNCHANGED <<inst, others, fs, fs_out, mergeVars, pipe>>

SplitSendEOF ==
    /\ SplitWantsInput
    /\ fs_bsf'  = [fs_bsf EXCEPT !.eof = TRUE]
    /\ fs_last' = [NoCall(fs_last.violated) EXCEPT !.ctx = SplitInit]
    /\ UNCHANGED <<inst, others, fs, fs_out, mergeVars, pipe>>

\* av_bsf_receive_packet: one call of the filter.  A failed assertion
\* aborts the process.
SplitCall ==
    LET r == av1_frame_split_filter(fs, fs_bsf)
    IN  /\ ~fs_out.abort
        /\ fs'      = r.ctx
        /\ fs_bsf'  = r.bsf
        /\ fs_out'  = [pkt |-> r.pkt, ret |-> r.ret, abort |-> r.abort]
        /\ fs_last' = [called |-> TRUE, pkt |-> fs_bsf.buffer_pkt,
                       eof |-> fs_bsf.eof, ctx |-> fs,
                       violated |-> \/ fs_last.violated
                                    \/ SplitViolation(fs, fs_bsf)]

SplitReceive ==
    /\ inst = "av1_frame_split"
    /\ SplitCall
    /\ UNCHANGED <<inst, others, mergeVars, pipe>>

\* av_bsf_flush: av1_frame_split_flush releases the packet and its units.
SplitFlush ==
    /\ inst = "av1_frame_split"
    /\ ~fs_out.abort
    /\ fs_bsf.eof
    /\ fs'      = [fs EXCEPT !.buffer_pkt = BlankPkt, !.temporal_unit = <<>>]
    /\ fs_bsf'  = BsfInit
    /\ fs_out'  = [pkt |-> BlankPkt, ret |-> NOT_CALLED, abort |-> FALSE]
    /\ fs_last' = [NoCall(FALSE) EXCEPT !.ctx = SplitInit]
    /\ UNCHANGED <<inst, others, mergeVars, pipe>>

NextSplit ==
    \/ SplitWantsInput /\ \E p \in SplitPackets : SplitSend(p)
    \/ SplitSendEOF
    \/ SplitReceive
    \/ SplitFlush

InitSplit == inst = "av1_frame_split" /\ InitAll
SpecSplit == InitSplit /\ [][NextSplit]_vars

\* ------------------------------------------------------- either filter
Init == inst \in {"av1_frame_merge", "av1_frame_split"} /\ InitAll
Next == NextMerge \/ NextSplit
Spec == Init /\ [][Next]_vars

\* ------------------------------------------------------------ pipeline
\* A stream of packets is passed through the merge filter up to the end of
\* the input; the stream is given, or it is what the split filter makes of
\* one temporal unit.

\* The units that follow the Temporal Delimiter of a temporal unit.
TailUnits ==
    {SequenceHeader, Frame(0), Frame(1), TileGroup(0), TileGroup(1),
     FrameHeader(1, 1, 1), FrameHeader(0, 0, 1), FrameHeader(0, 1, 2)}

\* u[i..] continues a temporal unit in which `tiles` is the number of tiles
\* of the frame whose tile groups are still to come (0: none).
RECURSIVE WellFormedTail(_, _, _)
WellFormedTail(u, i, tiles) ==
    IF i > Len(u) THEN tiles = 0
    ELSE
    CASE u[i].type = AV1_OBU_FRAME ->
            tiles = 0 /\ WellFormedTail(u, i + 1, 0)
      [] u[i].type = AV1_OBU_FRAME_HEADER ->
            /\ tiles = 0
            /\ WellFormedTail(u, i + 1,
                   IF u[i].show_existing_frame = 1 THEN 0
                   ELSE u[i].tile_cols * u[i].tile_rows)
      [] u[i].type = AV1_OBU_TILE_GROUP ->
            /\ tiles > 0
            /\ u[i].tg_end < tiles
            /\ WellFormedTail(u, i + 1,
                   IF u[i].tg_end = tiles - 1 THEN 0 ELSE tiles)
      [] u[i].type = AV1_OBU_SEQUENCE_HEADER ->
            WellFormedTail(u, i + 1, tiles)
      [] OTHER -> FALSE

\* The well-formed temporal units: one Temporal Delimiter, at the head.
TemporalUnits ==
    {[units |-> <<TemporalDelimiter>> \o t, pts |-> "pts0",
      dts |-> "dts0", side_data_elems |-> 0] :
        t \in {u \in SeqsUpTo(TailUnits, MaxTail) : WellFormedTail(u, 1, 0)}}

\* The units of the given streams.
StreamUnits == {TemporalDelimiter, SequenceHeader, Frame(1)}

\* The packets made of u[start..] cut after every position in cuts.
RECURSIVE CutStream(_, _, _)
CutStream(u, cuts, start) ==
    IF start > Len(u) THEN <<>>
    ELSE LET ends == {k \in cuts : k >= start /\ k < Len(u)} \cup {Len(u)}
             e    == CHOOSE k \in ends : \A m \in ends : k <= m
         IN  <<[units |-> SubSeq(u, start, e), pts |-> "pts0",
                dts |-> "dts0", side_data_elems |-> 0]>> \o CutStream(u, cuts, e + 1)

Streams ==
    {CutStream(u, cuts, 1) :
        u \in SeqsUpTo(StreamUnits, MaxStreamUnits),
        cuts \in SUBSET (1..(MaxStreamUnits - 1))}

InitStream ==
    /\ inst    = "pipeline"
    /\ \/ \E tu \in TemporalUnits :
            /\ pipe   = [NoPipe EXCEPT !.orig = tu]
            /\ fs_bsf = [BsfInit EXCEPT !.buffer_pkt = tu]
       \/ \E st \in Streams :
            /\ pipe   = [NoPipe EXCEPT !.stream = st, !.queue = st]
            /\ fs_bsf = BsfInit
    /\ fm      = MergeInit
    /\ fm_bsf  = BsfInit
    /\ fm_out  = [pkt |-> BlankPkt, ret |-> NOT_CALLED]
    /\ fm_last = NoCall(FALSE)
    /\ fs      = SplitInit
    /\ fs_out  = [pkt |-> BlankPkt, ret |-> NOT_CALLED, abort |-> FALSE]
    /\ fs_last = [NoCall(FALSE) EXCEPT !.ctx = SplitInit]
    /\ iamf    = IamfInit
    /\ iamf_call = NoIamfCall
    /\ pure    = NoPure
    /\ pp      = NoPostProc({})

\* The split filter is called until it asks for more input; each packet it
\* returns is queued for the merge filter.
PipeSplit ==
    /\ inst = "pipeline"
    /\ pipe.orig # BlankPkt
    /\ fs_out.ret \in {NOT_CALLED, OK}
    /\ SplitCall
    /\ pipe' = IF fs_out'.ret = OK
               THEN [pipe EXCEPT !.queue = Append(@, fs_out'.pkt)]
               ELSE pipe
    /\ UNCHANGED <<inst, others, mergeVars>>

\* The next queued packet is sent to the merge filter.
PipeFeed ==
    /\ inst = "pipeline"
    /\ pipe.queue # <<>>
    /\ fm_bsf.buffer_pkt = BlankPkt
    /\ ~fm_bsf.eof
    /\ fm_out.ret \in {NOT_CALLED, AVERROR_EAGAIN}
    /\ fm_bsf'  = [fm_bsf EXCEPT !.buffer_pkt = Head(pipe.queue)]
    /\ fm_last' = NoCall(fm_last.violated)
    /\ pipe'    = [pipe EXCEPT !.queue = Tail(@)]
    /\ UNCHANGED <<inst, others, fm, fm_out, splitVars>>

\* The end of the input is signalled to the merge filter.
PipeEOF ==
    /\ inst = "pipeline"
    /\ pipe.queue = <<>>
    /\ pipe.orig = BlankPkt \/ fs_out.ret = AVERROR_EAGAIN
    /\ fm_bsf.buffer_pkt = BlankPkt
    /\ ~fm_bsf.eof
    /\ fm_out.ret \in {NOT_CALLED, AVERROR_EAGAIN}
    /\ fm_bsf'  = [fm_bsf EXCEPT !.eof = TRUE]
    /\ fm_last' = NoCall(fm_last.violated)
    /\ UNCHANGED <<inst, others, fm, fm_out, splitVars, pipe>>

\* The merge filter is called while it has input or output; each packet it
\* returns is collected.
PipeMerge ==
    /\ inst = "pipeline"
    /\ fm_bsf.buffer_pkt # BlankPkt \/ fm_bsf.eof \/ fm_out.ret = OK
    /\ fm_out.ret \notin {AVERROR_EOF, AVERROR_INVALIDDATA}
    /\ MergeCall
    /\ pipe' = IF fm_out'.ret = OK
               THEN [pipe EXCEPT !.outs = Append(@, fm_out'.pkt)]
               ELSE pipe
    /\ UNCHANGED <<inst, others, splitVars>>

NextStream == PipeSplit \/ PipeFeed \/ PipeEOF \/ PipeMerge

SpecStream == InitStream /\ [][NextStream]_vars

\* ======================================================= IAMF demuxer calls
\* The OBUs of the descriptors: two codec configs, of which one has a codec
\* the demuxer does not know, audio elements with and without parameter
\* definitions, mix presentations, of which one uses the parameter_id of
\* the demixing definition for its mix gain, an OBU that is skipped and one
\* that ends early.
HeaderObus ==
    {CodecConfigObu(0, AV_CODEC_ID_OPUS),
     CodecConfigObu(1, AV_CODEC_ID_NONE),
     AudioElementObu(0, 0, <<0>>,
        <<ParamDef(AV_IAMF_PARAMETER_DEFINITION_DEMIXING, 1, 0),
          ParamDef(AV_IAMF_PARAMETER_DEFINITION_RECON_GAIN, 2, 0)>>,
        <<0, 1>>),
     AudioElementObu(1, 0, <<1>>, <<>>, <<0>>),
     AudioElementObu(1, 1, <<1>>, <<>>, <<0>>),
     MixPresentationObu(0,
        <<ParamDef(AV_IAMF_PARAMETER_DEFINITION_MIX_GAIN, 0, 0)>>, 3),
     MixPresentationObu(1,
        <<ParamDef(AV_IAMF_PARAMETER_DEFINITION_MIX_GAIN, 0, 1)>>, 3),
     MixPresentationObu(1,
        <<ParamDef(AV_IAMF_PARAMETER_DEFINITION_MIX_GAIN, 1, 1)>>, 3),
     SequenceHeaderObu,
     TruncatedObu(CodecConfigObu(0, AV_CODEC_ID_OPUS))}
\* The descriptors of a file, up to the first one that iamf_read_header
\* rejects: it reads nothing after that one.
RECURSIVE HeadersUpTo(_)
HeadersUpTo(n) ==
    IF n = 0 THEN {<<>>}
    ELSE LET H == HeadersUpTo(n - 1)
         IN  H \cup {Append(h, o) :
                       h \in {g \in H :
                                /\ Len(g) = n - 1
                                /\ iamf_read_header(DemuxInit, g, 1).ret
                                      = AVERROR_EOF},
                       o \in HeaderObus}
Headers == HeadersUpTo(MaxHeaderObus)

\* The Parameter Blocks: parameter_id 0 is the id of the mix gain definition
\* of the elements above, 1 of the demixing and 2 of the recon gain
\* definition; 4 is the id of no definition.
BlockObus ==
    {ParameterBlockObu(0, 0, 1, <<>>),
     ParameterBlockObu(0, AV_IAMF_ANIMATION_TYPE_BEZIER + 1, 2, <<>>),
     ParameterBlockObu(1, 0, 1, <<>>),
     ParameterBlockObu(1, 0, 2, <<>>),
     ParameterBlockObu(2, 0, 0, <<3, 8, 7>>),
     ParameterBlockObu(2, 0, 0, <<>>),
     ParameterBlockObu(4, 0, 1, <<>>),
     TruncatedObu(ParameterBlockObu(1, 0, 1, <<>>))}
\* The OBUs that end a call of iamf_read_packet.
EndObus ==
    {AudioFrameObu(0), AudioFrameObu(7), AudioFrameIdObu(1),
     TruncatedObu(AudioFrameObu(0)), TemporalDelimiterObu}
\* What one call of iamf_read_packet reads: Parameter Blocks, then an OBU
\* that ends the call or the end of the file.
Chunks ==
    {b \o e : b \in SeqsUpTo(BlockObus, MaxBlocks),
              e \in {<<>>} \cup {<<o>> : o \in EndObus}}
\* The OBU that follows the descriptors, if any.
HeaderEnds ==
    {<<>>, <<TemporalDelimiterObu>>, <<AudioFrameObu(0)>>,
     <<ParameterBlockObu(1, 0, 1, <<>>)>>}

\* avformat_open_input: iamf_read_header reads the descriptors h and stops
\* in front of the OBU e.
ReadHeader(h, e) ==
    LET obus == h \o e
        r    == iamf_read_header(iamf.c, obus, 1)
    IN  /\ r.n = Len(h)
        /\ r.ret = OK => e # <<>>
        /\ r.ret # OK => e = <<>>
        /\ iamf' = [c |-> r.c,
                    phase |-> IF r.ret = OK THEN "reading" ELSE "failed",
                    pending |-> e]
        /\ iamf_call' = [fn |-> "iamf_read_header", obus |-> obus,
                         ret |-> r.ret, pkt |-> NoPkt, before |-> Params(iamf.c)]
        /\ UNCHANGED <<inst, av1Vars, pure, pp>>

\* av_read_frame: iamf_read_packet reads the OBUs of chunk, which start
\* with the OBU that iamf_read_header has stopped at.
ReadPacket(chunk) ==
    LET r == iamf_read_packet(iamf.c, chunk, 1)
    IN  /\ iamf.pending # <<>> =>
              Len(chunk) > 0 /\ chunk[1] = iamf.pending[1]
        /\ r.n = Len(chunk)
        /\ iamf' = [c |-> r.c,
                    phase |-> IF r.ret = OK THEN "reading" ELSE "failed",
                    pending |-> <<>>]
        /\ iamf_call' = [fn |-> "iamf_read_packet", obus |-> chunk,
                         ret |-> r.ret, pkt |-> r.pkt, before |-> Params(iamf.c)]
        /\ UNCHANGED <<inst, av1Vars, pure, pp>>

\* avformat_close_input: iamf_read_close.
ReadClose ==
    /\ inst = "iamf_demuxer"
    /\ iamf.phase \in {"reading", "failed"}
    /\ iamf' = [c |-> iamf_read_close(iamf.c), phase |-> "closed",
                pending |-> <<>>]
    /\ iamf_call' = [NoIamfCall EXCEPT !.fn = "iamf_read_close",
                                       !.ret = OK,
                                       !.before = Params(iamf.c)]
    /\ UNCHANGED <<inst, av1Vars, pure, pp>>

NextDemux ==
    \/ /\ inst = "iamf_demuxer"
       /\ iamf.phase = "opened"
       /\ \E h \in Headers : \E e \in HeaderEnds : ReadHeader(h, e)
    \/ /\ inst = "iamf_demuxer"
       /\ iamf.phase = "reading"
       /\ \E chunk \in Chunks : ReadPacket(chunk)
    \/ ReadClose

InitDemux == inst = "iamf_demuxer" /\ InitAll
SpecDemux == InitDemux /\ [][NextDemux]_vars

\* ============================================================ functions
\* A function without state is applied to every input of a bounded set:
\* pure holds the input, then the result.
PureInput(arg) == [fn |-> "input", arg |-> arg, res |-> <<>>]
PureVars == <<inst, av1Vars, iamf, iamf_call, pp>>

\* ---- the recon gain subblock of a Parameter Block
GainBytes   == {0, 1, 3, 9, 129}
ReconInputs ==
    {PureInput([layers |-> l, bytes |-> b]) :
        l \in SeqsUpTo({0, 1}, MaxReconLayers),
        b \in SeqsUpTo(GainBytes, MaxGainBytes)}

ReconParse ==
    /\ inst = "recon_gain"
    /\ pure.fn = "input"
    /\ pure' = [fn  |-> "parameter_block_obu",
                arg |-> pure.arg,
                res |-> ParseReconGain(pure.arg.layers, pure.arg.bytes)]
    /\ UNCHANGED PureVars

NextRecon == ReconParse
InitRecon == inst = "recon_gain" /\ InitRest /\ pure \in ReconInputs
SpecRecon == InitRecon /\ [][NextRecon]_vars

\* ---- leb128 written by the muxer and read by the demuxer
\* The values below 2^56 as eight groups of 7 bits, the lowest first; the
\* fifth group holds bits 28 to 34.
GroupValues == {0, 1, 127}
FifthGroup  == {0, 15, 16, 127}
LebInputs ==
    {PureInput(low \o <<g5>> \o high) :
        low \in [1..4 -> GroupValues], g5 \in FifthGroup,
        high \in [1..3 -> GroupValues]}

LebWrite ==
    /\ inst = "leb"
    /\ pure.fn = "input"
    /\ pure' = [fn  |-> "written",
                arg |-> pure.arg,
                res |-> [bytes |-> EncLeb(ToUnsigned(pure.arg))]]
    /\ UNCHANGED PureVars

LebRead ==
    /\ inst = "leb"
    /\ pure.fn = "written"
    /\ pure' = [fn  |-> "leb",
                arg |-> pure.arg,
                res |-> [bytes |-> pure.res.bytes,
                         read  |-> DecLeb(pure.res.bytes, 0)]]
    /\ UNCHANGED PureVars

NextLeb == LebWrite \/ LebRead
InitLeb == inst = "leb" /\ InitRest /\ pure \in LebInputs
SpecLeb == InitLeb /\ [][NextLeb]_vars

\* ---- MPEG-2 fragments split and assembled
Mpeg2Inputs ==
    {PureInput(b) : b \in SeqsUpTo({0, 1, 2}, MaxBytes)}

\* The byte in memory in front of the data of the fragment is any byte.
Mpeg2Split ==
    /\ inst = "cbs_mpeg2"
    /\ pure.fn = "input"
    /\ \E before \in {0, 1, 2} :
          pure' = [fn  |-> "cbs_mpeg2_split_fragment",
                   arg |-> pure.arg,
                   res |-> cbs_mpeg2_split_fragment(pure.arg, before)]
    /\ UNCHANGED PureVars

Mpeg2Assemble ==
    /\ inst = "cbs_mpeg2"
    /\ pure.fn = "cbs_mpeg2_split_fragment"
    /\ pure.res.ret = OK
    /\ pure' = [fn  |-> "cbs_mpeg2_assemble_fragment",
                arg |-> pure.arg,
                res |-> cbs_mpeg2_assemble_fragment(pure.res.units)]
    /\ UNCHANGED PureVars

NextMpeg2 == Mpeg2Split \/ Mpeg2Assemble
InitMpeg2 == inst = "cbs_mpeg2" /\ InitRest /\ pure \in Mpeg2Inputs
SpecMpeg2 == InitMpeg2 /\ [][NextMpeg2]_vars

\* ---- AV1 packets split into OBUs
\* The bytes of the packets: OBU headers of type 0 and 2 without a size,
\* with a size and with an extension, which are sizes as well, and a byte
\* with the forbidden bit, which is a size with a continuation bit too.
MaxPacketBytes == 5
PacketBytes == {0, 2, 3, 6, 18, 128}
PacketInputs == {PureInput(b) : b \in SeqsUpTo(PacketBytes, MaxPacketBytes)}

PacketSplit ==
    /\ inst = "av1_parse"
    /\ pure.fn = "input"
    /\ pure' = [fn  |-> "ff_av1_packet_split",
                arg |-> pure.arg,
                res |-> ff_av1_packet_split(pure.arg)]
    /\ UNCHANGED PureVars

NextPacket == PacketSplit
InitPacket == inst = "av1_parse" /\ InitRest /\ pure \in PacketInputs
SpecPacket == InitPacket /\ [][NextPacket]_vars

\* ---- both splitters
InitFragment == InitMpeg2 \/ InitPacket
NextFragment == NextMpeg2 \/ NextPacket
SpecFragment == InitFragment /\ [][NextFragment]_vars

\* ---- leb128 fields read by the demuxer and by the AV1 OBU parser
MaxLebBytes == 9
LebBytes == {0, 128, 129}
LebFieldInputs == {PureInput(b) : b \in [1..MaxLebBytes -> LebBytes]}
\* The leb128 fields of the header of an IAMF OBU.
HeaderFields ==
    {"obu_size", "num_samples_to_trim_at_end",
     "num_samples_to_trim_at_start", "extension_header_size"}
\* The header of an Audio Frame OBU whose field is the bytes of field_bytes.
HeaderWith(field, field_bytes) ==
    CASE field = "obu_size" ->
            <<8 * IAMF_OBU_IA_AUDIO_FRAME_ID0>> \o field_bytes
      [] field = "num_samples_to_trim_at_end" ->
            <<8 * IAMF_OBU_IA_AUDIO_FRAME_ID0 + 2, 12>> \o field_bytes
               \o <<0>>
      [] field = "num_samples_to_trim_at_start" ->
            <<8 * IAMF_OBU_IA_AUDIO_FRAME_ID0 + 2, 12, 0>> \o field_bytes
      [] field = "extension_header_size" ->
            <<8 * IAMF_OBU_IA_AUDIO_FRAME_ID0 + 1, 12>> \o field_bytes

\* leb() on the bytes.
FieldLeb ==
    /\ inst = "leb128"
    /\ pure.fn = "input"
    /\ pure' = [fn  |-> "leb",
                arg |-> pure.arg,
                res |-> DecLeb(pure.arg, 0)]
    /\ UNCHANGED PureVars

\* parse_obu_header() of the demuxer on a header with the bytes as field.
FieldObuHeader(field) ==
    /\ inst = "leb128"
    /\ pure.fn = "input"
    /\ pure' = [fn  |-> "parse_obu_header",
                arg |-> pure.arg,
                res |-> [field  |-> field,
                         read   |-> get_leb128(pure.arg, 0),
                         header |-> parse_obu_header(
                                        HeaderWith(field, pure.arg),
                                        TRUE, TRUE)]]
    /\ UNCHANGED PureVars

\* ff_av1_extract_obu() on a Padding OBU with the bytes as obu_size.
FieldAv1Obu ==
    /\ inst = "leb128"
    /\ pure.fn = "input"
    /\ pure' = [fn  |-> "ff_av1_extract_obu",
                arg |-> pure.arg,
                res |-> [read |-> leb128(pure.arg, 0),
                         obu  |-> ff_av1_extract_obu(
                                      <<8 * 15 + 2>> \o pure.arg)]]
    /\ UNCHANGED PureVars

NextLebField ==
    \/ FieldLeb
    \/ \E field \in HeaderFields : FieldObuHeader(field)
    \/ FieldAv1Obu
InitLebField == inst = "leb128" /\ InitRest /\ pure \in LebFieldInputs
SpecLebField == InitLebField /\ [][NextLebField]_vars

\* ---- buffers probed for IAMF
MaxProbeObus == 3
\* The OBUs of the buffers: a Sequence Header with the tag and one with
\* another tag, a Codec Config, a Temporal Delimiter, Audio Frames of both
\* forms, one of them with the trimming flag, an OBU of a reserved type and
\* an OBU whose size is no leb128 value.
ProbeObus ==
    {<<8 * IAMF_OBU_IA_SEQUENCE_HEADER, 6>> \o IamfTag \o <<0, 0>>,
     <<8 * IAMF_OBU_IA_SEQUENCE_HEADER, 6, 105, 97, 109, 0, 0, 0>>,
     <<8 * IAMF_OBU_IA_CODEC_CONFIG, 1, 7>>,
     <<8 * IAMF_OBU_IA_TEMPORAL_DELIMITER, 0>>,
     <<8 * IAMF_OBU_IA_AUDIO_FRAME_ID0, 1, 9>>,
     <<8 * IAMF_OBU_IA_AUDIO_FRAME, 2, 1, 9>>,
     <<8 * IAMF_OBU_IA_AUDIO_FRAME_ID17 + 2, 3, 0, 0, 9>>,
     <<8 * (IAMF_OBU_IA_AUDIO_FRAME_ID17 + 1), 0>>,
     <<8 * IAMF_OBU_IA_AUDIO_FRAME_ID0, 255, 255, 255, 255, 255>>}
RECURSIVE Concat(_)
Concat(seqs) ==
    IF seqs = <<>> THEN <<>> ELSE Head(seqs) \o Concat(Tail(seqs))
\* The probe buffer holds the start of a file: some OBUs, cut anywhere.
ProbeBuffers == {Concat(obus) : obus \in SeqsUpTo(ProbeObus, MaxProbeObus)}
ProbeInputs ==
    UNION {{PureInput(SubSeq(b, 1, n)) : n \in 0..Len(b)} :
              b \in ProbeBuffers}

Probe ==
    /\ inst = "iamf_probe"
    /\ pure.fn = "input"
    /\ pure' = [fn  |-> "iamf_probe",
                arg |-> pure.arg,
                res |-> iamf_probe(pure.arg)]
    /\ UNCHANGED PureVars

NextProbe == Probe
InitProbe == inst = "iamf_probe" /\ InitRest /\ pure \in ProbeInputs
SpecProbe == InitProbe /\ [][NextProbe]_vars

\* ---- OBUs that declare more bytes than their fields take
MaxObuLen == 4
Readers ==
    {"codec_config_obu", "audio_element_obu", "mix_presentation_obu",
     "parameter_block_obu"}
\* The reader reads the OBU from a buffer of len bytes: it cannot read more.
UnderreadInputs ==
    UNION {{PureInput([reader |-> r, error_recognition |-> e, len |-> len,
                       tell |-> tell]) : tell \in 0..len} :
              r \in Readers, e \in SUBSET {AV_EF_EXPLODE, "AV_EF_CRCCHECK"},
              len \in 0..MaxObuLen}

ReaderEnd ==
    /\ inst = "underread"
    /\ pure.fn = "input"
    /\ pure' = [fn  |-> pure.arg.reader,
                arg |-> pure.arg,
                res |-> Underread(pure.arg.error_recognition, pure.arg.len,
                                  pure.arg.tell)]
    /\ UNCHANGED PureVars

NextUnderread == ReaderEnd
InitUnderread == inst = "underread" /\ InitRest /\ pure \in UnderreadInputs
SpecUnderread == InitUnderread /\ [][NextUnderread]_vars

\* ---- channels looked up in channel layouts
MaxChannels == 3
\* Front left, front right, front centre, channel 63, no channel, and the
\* first two ambisonic channels.
LayoutChannels == {0, 1, 2, 63, AV_CHAN_NONE, AV_CHAN_AMBISONIC_BASE,
                   AV_CHAN_AMBISONIC_BASE + 1}
\* Native layouts hold as many channels as their mask has bits; the ids of
\* a custom layout are channels; an ambisonic layout of order n holds
\* (n + 1)^2 channels.
Layouts ==
    {Layout(AV_CHANNEL_ORDER_NATIVE, Cardinality(m), m, <<>>) :
        m \in {s \in SUBSET {0, 1, 2, 63} : Cardinality(s) <= MaxChannels}}
    \cup {Layout(AV_CHANNEL_ORDER_CUSTOM, Len(map), {}, map) :
             map \in SeqsUpTo(LayoutChannels \ {AV_CHAN_NONE}, MaxChannels)}
    \cup {Layout(AV_CHANNEL_ORDER_AMBISONIC, n, {}, <<>>) : n \in {1, 4}}
    \cup {Layout(AV_CHANNEL_ORDER_UNSPEC, n, {}, <<>>) : n \in 1..MaxChannels}
LayoutInputs == {PureInput(l) : l \in Layouts}

\* av_channel_layout_channel_from_index(layout, idx).
ChannelFromIndex(idx) ==
    /\ inst = "channel_layout"
    /\ pure.fn = "input"
    /\ pure' = [fn  |-> "av_channel_layout_channel_from_index",
                arg |-> pure.arg,
                res |-> [idx     |-> idx,
                         channel |-> av_channel_layout_channel_from_index(
                                         pure.arg, idx)]]
    /\ UNCHANGED PureVars

\* av_channel_layout_index_from_channel(layout, channel).
IndexFromChannel(channel) ==
    /\ inst = "channel_layout"
    /\ pure.fn = "input"
    /\ \E r \in av_channel_layout_index_from_channel(pure.arg, channel) :
          pure' = [fn  |-> "av_channel_layout_index_from_channel",
                   arg |-> pure.arg,
                   res |-> [channel |-> channel, index |-> r]]
    /\ UNCHANGED PureVars

\* The index of the channel that was found at idx is looked up.
IndexOfChannelFound ==
    /\ inst = "channel_layout"
    /\ pure.fn = "av_channel_layout_channel_from_index"
    /\ \E r \in av_channel_layout_index_from_channel(pure.arg,
                                                     pure.res.channel) :
          pure' = [fn  |-> "index_of_channel_from_index",
                   arg |-> pure.arg,
                   res |-> [idx     |-> pure.res.idx,
                            channel |-> pure.res.channel,
                            index   |-> r]]
    /\ UNCHANGED PureVars

NextLayout ==
    \/ \E idx \in 0..(MaxChannels + 1) : ChannelFromIndex(idx)
    \/ \E channel \in LayoutChannels : IndexFromChannel(channel)
    \/ IndexOfChannelFound
InitLayout == inst = "channel_layout" /\ InitRest /\ pure \in LayoutInputs
SpecLayout == InitLayout /\ [][NextLayout]_vars

\* ---- streams and packets written by the IAMF muxer
MaxMuxStreams == 2
MaxAudioElements == 3
\* Stream ids: below zero, not set, the last implicit one, and explicit
\* ones of one and two bytes.
MuxIds == {-7, -1, 0, 17, 18, 200}
\* Stereo Opus audio of every id and, without id, stereo audio of the
\* other supported tags and of another tag, video, and audio of three
\* channels.
MuxStreams ==
    {MuxStream(id, AVMEDIA_TYPE_AUDIO, "Opus", 2) : id \in MuxIds}
    \cup {MuxStream(0, AVMEDIA_TYPE_AUDIO, tag, 2) :
             tag \in SupportedTags \cup {"mp3 "}}
    \cup {MuxStream(0, AVMEDIA_TYPE_VIDEO, "Opus", 2),
          MuxStream(0, AVMEDIA_TYPE_AUDIO, "Opus", 3)}
\* The stream groups of nb_streams streams: n audio elements over every
\* stream, element k with demixing_info 10 + k and recon_gain_info 20 + k
\* and the codec config k \div 3, so that the first two share one,
\* then m mix presentations of one submix with output_mix_config 1 and an
\* element with element_mix_config 2 for every audio element.
MuxGroups(nb_streams, n, m) ==
    LET all == [i \in 1..nb_streams |-> i]
    IN  [k \in 1..n |->
            [AudioElementGroup(k, all,
                ParamDefinition(10 + k,
                    AV_IAMF_PARAMETER_DEFINITION_DEMIXING, 0, 0),
                ParamDefinition(20 + k,
                    AV_IAMF_PARAMETER_DEFINITION_RECON_GAIN, 0, 0))
             EXCEPT !.codec_config_id = k \div 3]]
        \o [k \in 1..m |->
               MixPresentationGroup(n + k, all,
                   <<[output_mix_config |->
                          ParamDefinition(1,
                              AV_IAMF_PARAMETER_DEFINITION_MIX_GAIN, 0, 0),
                      elements |->
                          [e \in 1..n |->
                              [audio_element |-> e,
                               element_mix_config |->
                                   ParamDefinition(2,
                                       AV_IAMF_PARAMETER_DEFINITION_MIX_GAIN,
                                       0, 0)]]]>>)]
\* The codec_config_id that the memory after c->codec_configs may hold.
HeapIds == {0, 1}
\* No stream group at all is MuxGroups(nb_streams, 0, 0).  The memory
\* after c->codec_configs is only read with more than one stream group.
MuxInputs ==
    {x \in {PureInput([streams |-> streams,
                       stream_groups |-> MuxGroups(Len(streams), n, m),
                       heap |-> heap]) :
                streams \in SeqsUpTo(MuxStreams, MaxMuxStreams),
                n \in 0..MaxAudioElements, m \in 0..1, heap \in HeapIds} :
        x.arg.heap = 0 \/ Len(x.arg.stream_groups) > 1}

\* The side data of a packet: a mix gain, a demixing info that may be of
\* a type above RECON_GAIN, a recon gain that may name no definition.
MuxPackets(nb_streams) ==
    {[stream_index |-> i, data |-> data, mix |-> mix, demix |-> demix,
      recon |-> recon] :
        i \in 0..(nb_streams - 1), data \in {<<17>>},
        mix \in {NullParam,
                 ParamDefinition(1, AV_IAMF_PARAMETER_DEFINITION_MIX_GAIN,
                                 0, 256)},
        demix \in {NullParam,
                   ParamDefinition(11, AV_IAMF_PARAMETER_DEFINITION_DEMIXING,
                                   0, 1),
                   ParamDefinition(11, "UNKNOWN", 0, 0)},
        recon \in {NullParam,
                   ParamDefinition(21,
                       AV_IAMF_PARAMETER_DEFINITION_RECON_GAIN, 0, 0),
                   ParamDefinition(99,
                       AV_IAMF_PARAMETER_DEFINITION_RECON_GAIN, 0, 0)}}

\* What iamf_write_packet reads of the AVFormatContext: the ids of the
\* streams and the stream groups.
MuxView(s) ==
    [streams |-> [i \in 1..Len(s.streams) |-> [id |-> s.streams[i].id]],
     stream_groups |-> s.stream_groups]

\* iamf_init.
MuxInit ==
    /\ inst = "iamf_muxer"
    /\ pure.fn = "input"
    /\ pure' = [fn |-> "iamf_init", arg |-> pure.arg,
                res |-> iamf_init(pure.arg)]
    /\ UNCHANGED PureVars

\* The muxer that a call of iamf_write_packet finds: the one that
\* iamf_init has left.
Muxer ==
    IF pure.fn = "iamf_init"
    THEN [s |-> MuxView(pure.res.s), c |-> pure.res.c]
    ELSE [s |-> pure.arg.s, c |-> pure.arg.c]

\* iamf_write_header, after iamf_init has succeeded.
MuxWriteHeader(start) ==
    /\ inst = "iamf_muxer"
    /\ pure.fn = "iamf_init" /\ pure.res.ret = OK
    /\ pure' = [fn  |-> "iamf_write_header",
                arg |-> [s |-> Muxer.s, c |-> Muxer.c, start |-> start],
                res |-> iamf_write_header(Muxer.c, start)]
    /\ UNCHANGED PureVars

\* iamf_write_packet, after iamf_write_header has succeeded.
MuxWritePacket(pkt) ==
    /\ inst = "iamf_muxer"
    /\ \/ pure.fn = "iamf_write_header" /\ pure.res.ret = OK
       \/ pure.fn = "iamf_write_packet"
    /\ pkt \in MuxPackets(Len(Muxer.s.streams))
    /\ pure' = [fn  |-> "iamf_write_packet",
                arg |-> [s |-> Muxer.s, c |-> Muxer.c, pkt |-> pkt],
                res |-> iamf_write_packet(Muxer.s, Muxer.c, pkt)]
    /\ UNCHANGED PureVars

\* The values of an int that is not initialized: below zero, zero, and
\* above.
MaxStart == 1
StartIndices == (0 - 1)..MaxStart
NextMux ==
    \/ MuxInit
    \/ \E start \in StartIndices \X StartIndices \X StartIndices :
           MuxWriteHeader(start)
    \/ \E pkt \in MuxPackets(MaxMuxStreams) : MuxWritePacket(pkt)
InitMux == inst = "iamf_muxer" /\ InitRest /\ pure \in MuxInputs
SpecMux == InitMux /\ [][NextMux]_vars

\* ---- one temporal unit split, with the next packet waiting
\* The split filter is given a well-formed temporal unit and called until
\* one call after the last packet it makes of it; the caller sends the next
\* packet as soon as av_bsf_send_packet accepts one.  pipe.orig is the
\* temporal unit, pipe.outs what every call has returned (a blank packet
\* when it returned none), pipe.stream the next packet once it is sent.
NextPackets ==
    {[units |-> <<TemporalDelimiter, Frame(1)>>, pts |-> "pts1",
      dts |-> "dts0", side_data_elems |-> 0]}

InitSplitRun ==
    /\ inst    = "split_run"
    /\ \E tu \in TemporalUnits :
            /\ pipe   = [NoPipe EXCEPT !.orig = tu]
            /\ fs_bsf = [BsfInit EXCEPT !.buffer_pkt = tu]
    /\ fm      = MergeInit
    /\ fm_bsf  = BsfInit
    /\ fm_out  = [pkt |-> BlankPkt, ret |-> NOT_CALLED]
    /\ fm_last = NoCall(FALSE)
    /\ fs      = SplitInit
    /\ fs_out  = [pkt |-> BlankPkt, ret |-> NOT_CALLED, abort |-> FALSE]
    /\ fs_last = [NoCall(FALSE) EXCEPT !.ctx = SplitInit]
    /\ iamf    = IamfInit
    /\ iamf_call = NoIamfCall
    /\ pure    = NoPure
    /\ pp      = NoPostProc({})

\* av_bsf_receive_packet, while the filter returns packets.
RunSplit ==
    /\ inst = "split_run"
    /\ fs_out.ret \in {NOT_CALLED, OK}
    /\ Len(pipe.outs) <= CountFrames(pipe.orig.units)
    /\ SplitCall
    /\ pipe' = [pipe EXCEPT !.outs = Append(@, fs_out'.pkt)]
    /\ UNCHANGED <<inst, others, mergeVars>>

\* av_bsf_send_packet, before the filter has asked for more input: it takes
\* a packet when the filter has fetched the one before.
RunSend(p) ==
    /\ inst = "split_run"
    /\ fs_bsf.buffer_pkt = BlankPkt
    /\ ~fs_bsf.eof
    /\ pipe.stream = <<>>
    /\ fs_out.ret \in {NOT_CALLED, OK}
    /\ fs_bsf' = [fs_bsf EXCEPT !.buffer_pkt = p]
    /\ pipe'   = [pipe EXCEPT !.stream = <<p>>]
    /\ UNCHANGED <<inst, others, mergeVars, fs, fs_out, fs_last>>

NextSplitRun == RunSplit \/ \E p \in NextPackets : RunSend(p)
SpecSplitRun == InitSplitRun /\ [][NextSplitRun]_vars

\* ---- the recon gains written by the muxer and read by the demuxer
\* write_parameter_block, the flags of the recon gains of one layer: a bit
\* for each of the first seven gains that is not zero, bit 7 when the
\* flags so far have a bit above bit 7, and the bits from 8 on for the
\* gains 7 to 11.
ReconGainFlags(row) ==
    LET Flag(k) == IF row[k + 1] # 0 THEN 1 ELSE 0
        low     == Flag(0) + 2 * Flag(1) + 4 * Flag(2) + 8 * Flag(3)
                   + 16 * Flag(4) + 32 * Flag(5) + 64 * Flag(6)
        marker  == IF low \div 256 # 0 THEN 128 ELSE 0
        high    == 256 * Flag(7) + 512 * Flag(8) + 1024 * Flag(9)
                   + 2048 * Flag(10) + 4096 * Flag(11)
    IN  low + marker + high

\* The gains of the row from k on that are not zero.
RECURSIVE GainsWritten(_, _)
GainsWritten(row, k) ==
    IF k > ReconGainBits THEN <<>>
    ELSE (IF row[k] # 0 THEN <<row[k]>> ELSE <<>>)
         \o GainsWritten(row, k + 1)

\* write_parameter_block, the recon gain subblock of a param of mode 0:
\* for every layer from j on that has recon_gain_is_present, the flags as
\* leb128 and the gains that are not zero.
RECURSIVE WriteReconGain(_, _, _)
WriteReconGain(layers, recon_gain, j) ==
    IF j > Len(layers) THEN <<>>
    ELSE (IF ReconGainPresent(layers[j])
          THEN EncLeb(GroupsOf(ReconGainFlags(recon_gain[j])))
               \o GainsWritten(recon_gain[j], 1)
          ELSE <<>>)
         \o WriteReconGain(layers, recon_gain, j + 1)

\* The gains of a layer: those of the channels of the set are value.
GainRow(channels, value) ==
    [k \in 1..ReconGainBits |-> IF (k - 1) \in channels THEN value ELSE 0]
GainChannels == {0, 6, 7, 11}
GainRows ==
    {GainRow(channels, value) :
        channels \in SUBSET GainChannels, value \in {1, 255}}
\* The layers of an audio element and their gains: a layer without
\* recon_gain_is_present has none.
ReconTripInputs ==
    {x \in {PureInput([layers |-> l, recon_gain |-> g]) :
                l \in SeqsUpTo({0, 1}, MaxReconLayers),
                g \in SeqsUpTo(GainRows, MaxReconLayers)} :
        /\ Len(x.arg.layers) = Len(x.arg.recon_gain)
        /\ \A i \in 1..Len(x.arg.layers) :
              ~ReconGainPresent(x.arg.layers[i])
              => x.arg.recon_gain[i] = GainRow({}, 0)}

\* write_parameter_block.
ReconTripWrite ==
    /\ inst = "recon_gain_trip"
    /\ pure.fn = "input"
    /\ pure' = [fn  |-> "write_parameter_block",
                arg |-> pure.arg,
                res |-> WriteReconGain(pure.arg.layers,
                                       pure.arg.recon_gain, 1)]
    /\ UNCHANGED PureVars

\* parameter_block_obu on what write_parameter_block has written.
ReconTripRead ==
    /\ inst = "recon_gain_trip"
    /\ pure.fn = "write_parameter_block"
    /\ pure' = [fn  |-> "parameter_block_obu",
                arg |-> [layers |-> pure.arg.layers,
                         recon_gain |-> pure.arg.recon_gain,
                         bytes |-> pure.res],
                res |-> ParseReconGain(pure.arg.layers, pure.res)]
    /\ UNCHANGED PureVars

NextReconTrip == ReconTripWrite \/ ReconTripRead
InitReconTrip ==
    inst = "recon_gain_trip" /\ InitRest /\ pure \in ReconTripInputs
SpecReconTrip == InitReconTrip /\ [][NextReconTrip]_vars

\* ---- the PCM codec config written by the muxer and read by the demuxer
PcmCodecIds ==
    {"AV_CODEC_ID_PCM_S16LE", "AV_CODEC_ID_PCM_S24LE",
     "AV_CODEC_ID_PCM_S32LE", "AV_CODEC_ID_PCM_S16BE",
     "AV_CODEC_ID_PCM_S24BE", "AV_CODEC_ID_PCM_S32BE"}
\* avio_wb32 and avio_rb32.
Wb32(v) ==
    <<(v \div 16777216) % 256, (v \div 65536) % 256, (v \div 256) % 256,
      v % 256>>
Rb32(bytes, pos) ==
    16777216 * ReadByte(bytes, pos) + 65536 * ReadByte(bytes, pos + 1)
    + 256 * ReadByte(bytes, pos + 2) + ReadByte(bytes, pos + 3)

\* iamf_write_codec_config, the bytes after seek_preroll for a PCM codec
\* id: the sample format, the sample size and the sample rate.
WritePcmConfig(codec_id, sample_rate) ==
    LET sample_format ==
            IF codec_id \in {"AV_CODEC_ID_PCM_S16LE",
                             "AV_CODEC_ID_PCM_S24LE",
                             "AV_CODEC_ID_PCM_S32LE"}
            THEN 0 ELSE 1
        sample_size ==
            CASE codec_id \in {"AV_CODEC_ID_PCM_S16LE",
                               "AV_CODEC_ID_PCM_S16BE"} -> 16
              [] codec_id \in {"AV_CODEC_ID_PCM_S24LE",
                               "AV_CODEC_ID_PCM_S24BE"} -> 24
              [] OTHER -> 32
    IN  <<sample_format, sample_size>> \o Wb32(sample_rate)

\* The table sample_fmt[2][3] of ipcm_decoder_config, with both indices
\* from 0.
PcmSampleFmt ==
    <<<<"AV_CODEC_ID_PCM_S16BE", "AV_CODEC_ID_PCM_S24BE",
        "AV_CODEC_ID_PCM_S32BE">>,
      <<"AV_CODEC_ID_PCM_S16LE", "AV_CODEC_ID_PCM_S24LE",
        "AV_CODEC_ID_PCM_S32LE">>>>

\* ipcm_decoder_config on the bytes after seek_preroll, which are the rest
\* of the OBU.  A sample size below 16 indexes the table before its first
\* element: the codec id is then whatever is found there.
ipcm_decoder_config(bytes) ==
    LET sample_format == ReadByte(bytes, 0)
        sample_size   == (ReadByte(bytes, 1) \div 8) - 2
    IN  IF sample_format > 1 \/ sample_size > 2
        THEN [ret |-> AVERROR_INVALIDDATA, codec_id |-> "AV_CODEC_ID_NONE",
              sample_rate |-> 0]
        ELSE [ret |-> IF Len(bytes) - 6 # 0
                      THEN AVERROR_INVALIDDATA ELSE OK,
              codec_id |-> IF sample_size < 0 THEN "out of bounds"
                           ELSE PcmSampleFmt[sample_format + 1]
                                            [sample_size + 1],
              sample_rate |-> Rb32(bytes, 2)]

PcmSampleRates == {8000, 16000, 22050, 44100, 48000, 96000, 192000}
PcmInputs ==
    {PureInput([codec_id |-> id, sample_rate |-> rate]) :
        id \in PcmCodecIds, rate \in PcmSampleRates}

\* iamf_write_codec_config.
PcmWrite ==
    /\ inst = "ipcm_config"
    /\ pure.fn = "input"
    /\ pure' = [fn  |-> "iamf_write_codec_config",
                arg |-> pure.arg,
                res |-> WritePcmConfig(pure.arg.codec_id,
                                       pure.arg.sample_rate)]
    /\ UNCHANGED PureVars

\* codec_config_obu on what iamf_write_codec_config has written.
PcmRead ==
    /\ inst = "ipcm_config"
    /\ pure.fn = "iamf_write_codec_config"
    /\ pure' = [fn  |-> "ipcm_decoder_config",
                arg |-> [codec_id |-> pure.arg.codec_id,
                         sample_rate |-> pure.arg.sample_rate,
                         bytes |-> pure.res],
                res |-> ipcm_decoder_config(pure.res)]
    /\ UNCHANGED PureVars

NextPcm == PcmWrite \/ PcmRead
InitPcm == inst = "ipcm_config" /\ InitRest /\ pure \in PcmInputs
SpecPcm == InitPcm /\ [][NextPcm]_vars

\* ---- the durations of a parameter definition and of its Parameter Blocks
\* param_parse, the fields after parameter_rate of a definition that is
\* new: f holds param_definition_mode and what the three leb128 fields
\* hold when they are read, whether an audio element is given, the
\* frame_size of its first stream, and uninit, the value of the variables
\* duration and constant_subblock_duration when nothing is assigned to
\* them.  num_subblocks starts as 0.
ParamDurations(f) ==
    IF f.param_definition_mode = 0
    THEN [param_definition_mode |-> 0,
          duration |-> f.duration,
          constant_subblock_duration |-> f.constant_subblock_duration,
          num_subblocks |->
              IF f.constant_subblock_duration = 0 THEN f.num_subblocks
              ELSE f.duration \div f.constant_subblock_duration]
    ELSE IF f.audio_element
    THEN [param_definition_mode |-> 1,
          duration |-> f.frame_size,
          constant_subblock_duration |-> f.frame_size,
          num_subblocks |-> 0]
    ELSE [param_definition_mode |-> 1,
          duration |-> f.uninit,
          constant_subblock_duration |-> f.uninit,
          num_subblocks |-> 0]

\* An unsigned division: a divisor of 0 is undefined, the process is
\* stopped by a trap or goes on with some quotient, here 0.
Divide(a, b, fpe) ==
    IF b = 0
    THEN [by_zero |-> TRUE, trap |-> fpe = "trap", q |-> 0]
    ELSE [by_zero |-> FALSE, trap |-> FALSE, q |-> a \div b]

\* parameter_block_obu, from the lookup of the definition to num_subblocks:
\* with param_definition_mode set the three fields are read from the
\* block b, else they are the ones of the definition, and num_subblocks
\* is computed when the definition has 0.
BlockSubblocks(param, b, fpe) ==
    LET none == [by_zero |-> FALSE, trap |-> FALSE, q |-> 0]
        mode == param.param_definition_mode # 0
        duration == IF mode THEN b.duration ELSE param.duration
        constant_subblock_duration ==
            IF mode THEN b.constant_subblock_duration
            ELSE param.constant_subblock_duration
        d == IF mode
             THEN IF constant_subblock_duration = 0
                  THEN [none EXCEPT !.q = b.num_subblocks]
                  ELSE Divide(duration, constant_subblock_duration, fpe)
             ELSE IF param.num_subblocks # 0
                  THEN [none EXCEPT !.q = param.num_subblocks]
                  ELSE Divide(duration, constant_subblock_duration, fpe)
    IN  [ret |-> IF d.trap THEN ABORTED ELSE OK,
         by_zero |-> d.by_zero,
         duration |-> duration,
         constant_subblock_duration |-> constant_subblock_duration,
         num_subblocks |-> d.q]

MaxDuration == 2
DurationFields ==
    [duration : 0..MaxDuration, constant_subblock_duration : 0..MaxDuration,
     num_subblocks : 0..MaxDuration]
ParamBlockInputs ==
    {PureInput([param_definition_mode |-> mode, duration |-> f.duration,
                constant_subblock_duration |->
                    f.constant_subblock_duration,
                num_subblocks |-> f.num_subblocks,
                audio_element |-> audio_element, frame_size |-> 1,
                uninit |-> uninit]) :
        mode \in {0, 1}, f \in DurationFields,
        audio_element \in BOOLEAN, uninit \in {0, 2}}

\* param_parse, for a parameter_id that is new.
ParamParse ==
    /\ inst = "param_block"
    /\ pure.fn = "input"
    /\ pure' = [fn |-> "param_parse", arg |-> pure.arg,
                res |-> ParamDurations(pure.arg)]
    /\ UNCHANGED PureVars

\* parameter_block_obu for the parameter_id of the definition.
ParameterBlock(b, fpe) ==
    /\ inst = "param_block"
    /\ pure.fn = "param_parse"
    /\ pure' = [fn  |-> "parameter_block_obu",
                arg |-> [param |-> pure.res, block |-> b],
                res |-> BlockSubblocks(pure.res, b, fpe)]
    /\ UNCHANGED PureVars

NextParamBlock ==
    \/ ParamParse
    \/ \E b \in DurationFields : \E fpe \in {"trap", "zero"} :
          ParameterBlock(b, fpe)
InitParamBlock ==
    inst = "param_block" /\ InitRest /\ pure \in ParamBlockInputs
SpecParamBlock == InitParamBlock /\ [][NextParamBlock]_vars

\* ---- threads that share one post-processing handle
\* The types that ff_postproc_init is called with.
InitTypes ==
    {FF_POSTPROC_TYPE_CUSTOM, FF_POSTPROC_TYPE_LCEVC, FF_POSTPROC_TYPE_NB}
PostprocVars == <<inst, av1Vars, iamf, iamf_call, pure>>
\* The thread stands at pc in a call of fn.
At(t, fn, pc) ==
    inst = "postproc" /\ pp.th[t].fn = fn /\ pp.th[t].pc = pc

\* Thread t calls fn.
PostprocCall(t, fn, type) ==
    /\ inst = "postproc"
    /\ pp.th[t].pc \in {"idle", "returned"}
    /\ pp.th[t].calls < MaxCalls
    /\ pp' = [pp EXCEPT !.th[t] =
                 [pc |-> IF fn = "ff_postproc_init" THEN "entry" ELSE "lock",
                  fn |-> fn, type |-> type, ret |-> NOT_CALLED,
                  calls |-> pp.th[t].calls + 1, left |-> Untouched]]
    /\ UNCHANGED PostprocVars

\* ff_mutex_lock in any of the three functions.
PostprocLock(t) ==
    /\ inst = "postproc"
    /\ pp.th[t].pc = "lock"
    /\ pp.mutex = 0
    /\ pp' = [pp EXCEPT !.mutex = t, !.th[t].pc = "locked"]
    /\ UNCHANGED PostprocVars

\* ff_postproc_init, the test of the type before the lock is taken.
PostprocInitEntry(t) ==
    /\ At(t, "ff_postproc_init", "entry")
    /\ pp' = IF pp.th[t].type <= FF_POSTPROC_TYPE_CUSTOM
             THEN [pp EXCEPT !.th[t].pc = "returned",
                             !.th[t].ret = AVERROR_EINVAL]
             ELSE [pp EXCEPT !.th[t].pc = "lock"]
    /\ UNCHANGED PostprocVars

\* ff_postproc_init under the lock, the test of pp->type: a handle that is
\* open is left alone.
PostprocInitOpened(t) ==
    /\ At(t, "ff_postproc_init", "locked")
    /\ pp' = IF pp.type # "NULL" THEN UnlockReturn(pp, t, OK)
             ELSE [pp EXCEPT !.th[t].pc = "lookup"]
    /\ UNCHANGED PostprocVars

\* ff_postproc_init, the search of post_process_table and pp->type = .
PostprocInitLookup(t) ==
    /\ At(t, "ff_postproc_init", "lookup")
    /\ pp' = IF pp.th[t].type \in pp.table
             THEN [pp EXCEPT !.type = "ff_lcevc_postproc",
                             !.th[t].pc = "alloc"]
             ELSE [pp EXCEPT !.th[t].ret = AVERROR_ENOSYS,
                             !.th[t].pc = "fail"]
    /\ UNCHANGED PostprocVars

\* ff_postproc_init, av_mallocz of the private data.
PostprocInitAlloc(t, ok) ==
    /\ At(t, "ff_postproc_init", "alloc")
    /\ pp' = IF ok
             THEN [pp EXCEPT !.priv_data = "allocated", !.th[t].pc = "init"]
             ELSE [pp EXCEPT !.th[t].ret = AVERROR_ENOMEM,
                             !.th[t].pc = "fail"]
    /\ UNCHANGED PostprocVars

\* ff_postproc_init, the init callback of the type.
PostprocInitCallback(t, ok) ==
    /\ At(t, "ff_postproc_init", "init")
    /\ pp' = IF ok
             THEN [pp EXCEPT !.inits = @ + 1, !.th[t].pc = "caps"]
             ELSE [pp EXCEPT !.th[t].ret = AVERROR_EXTERNAL,
                             !.th[t].pc = "fail"]
    /\ UNCHANGED PostprocVars

\* ff_postproc_init, the capability of a type with get_buffer, and ret = 0.
PostprocInitCaps(t) ==
    /\ At(t, "ff_postproc_init", "caps")
    /\ pp' = [pp EXCEPT !.caps = FF_POSTPROC_CAP_GET_BUFFER,
                        !.th[t].ret = OK, !.th[t].pc = "fail"]
    /\ UNCHANGED PostprocVars

\* ff_postproc_init from the fail label on.
PostprocInitFail(t) ==
    /\ At(t, "ff_postproc_init", "fail")
    /\ pp' = UnlockReturn(FailCleanup(pp, pp.th[t].ret), t, pp.th[t].ret)
    /\ UNCHANGED PostprocVars

\* ff_postproc_init_custom under the lock, the test of pp->type.
PostprocCustomOpened(t) ==
    /\ At(t, "ff_postproc_init_custom", "locked")
    /\ pp' = IF pp.type # "NULL"
             THEN [pp EXCEPT !.th[t].ret = AVERROR_BUG,
                             !.th[t].pc = "unlock"]
             ELSE [pp EXCEPT !.th[t].pc = "alloc"]
    /\ UNCHANGED PostprocVars

\* ff_postproc_init_custom, av_mallocz of the type and pp->type = type.
PostprocCustomAlloc(t, ok) ==
    /\ At(t, "ff_postproc_init_custom", "alloc")
    /\ pp' = IF ok
             THEN [pp EXCEPT !.type = "custom", !.th[t].ret = OK,
                             !.th[t].pc = "unlock"]
             ELSE [pp EXCEPT !.th[t].ret = AVERROR_ENOMEM,
                             !.th[t].pc = "unlock"]
    /\ UNCHANGED PostprocVars

\* ff_postproc_init_custom from the fail label on.
PostprocCustomUnlock(t) ==
    /\ At(t, "ff_postproc_init_custom", "unlock")
    /\ pp' = UnlockReturn(pp, t, pp.th[t].ret)
    /\ UNCHANGED PostprocVars

\* ff_postproc_is_open under the lock: ret = !!pp->type.
PostprocIsOpenRead(t) ==
    /\ At(t, "ff_postproc_is_open", "locked")
    /\ pp' = [pp EXCEPT !.th[t].ret = IF pp.type # "NULL" THEN IS_OPEN
                                      ELSE OK,
                        !.th[t].pc = "unlock"]
    /\ UNCHANGED PostprocVars

\* ff_postproc_is_open, the unlock and the return.
PostprocIsOpenUnlock(t) ==
    /\ At(t, "ff_postproc_is_open", "unlock")
    /\ pp' = UnlockReturn(pp, t, pp.th[t].ret)
    /\ UNCHANGED PostprocVars

NextPostproc ==
    \E t \in Threads :
        \/ \E type \in InitTypes : PostprocCall(t, "ff_postproc_init", type)
        \/ PostprocCall(t, "ff_postproc_init_custom", FF_POSTPROC_TYPE_NONE)
        \/ PostprocCall(t, "ff_postproc_is_open", FF_POSTPROC_TYPE_NONE)
        \/ PostprocLock(t)
        \/ PostprocInitEntry(t)
        \/ PostprocInitOpened(t)
        \/ PostprocInitLookup(t)
        \/ \E ok \in BOOLEAN : PostprocInitAlloc(t, ok)
        \/ \E ok \in BOOLEAN : PostprocInitCallback(t, ok)
        \/ PostprocInitCaps(t)
        \/ PostprocInitFail(t)
        \/ PostprocCustomOpened(t)
        \/ \E ok \in BOOLEAN : PostprocCustomAlloc(t, ok)
        \/ PostprocCustomUnlock(t)
        \/ PostprocIsOpenRead(t)
        \/ PostprocIsOpenUnlock(t)
\* The build has ff_lcevc_postproc in post_process_table, or has not.
InitPostproc ==
    /\ inst = "postproc"
    /\ pipe    = NoPipe
    /\ fm      = MergeInit
    /\ fm_bsf  = BsfInit
    /\ fm_out  = [pkt |-> BlankPkt, ret |-> NOT_CALLED]
    /\ fm_last = NoCall(FALSE)
    /\ fs      = SplitInit
    /\ fs_bsf  = BsfInit
    /\ fs_out  = [pkt |-> BlankPkt, ret |-> NOT_CALLED, abort |-> FALSE]
    /\ fs_last = NoCall(FALSE)
    /\ iamf    = IamfInit
    /\ iamf_call = NoIamfCall
    /\ pure    = NoPure
    /\ pp \in {NoPostProc({}), NoPostProc({FF_POSTPROC_TYPE_LCEVC})}
SpecPostproc == InitPostproc /\ [][NextPostproc]_vars

\* =============================================================== claims
\* What the last call of a filter started from.
Parses(pkt) ==
    \A i \in 1..Len(pkt.units) : pkt.units[i].type # OBU_FORBIDDEN
IsDelimiter(unit) == unit.type = AV1_OBU_TEMPORAL_DELIMITER
DelimiterOnlyAtHead(units) == \A i \in 2..Len(units) : ~IsDelimiter(units[i])
\* The merge filter's last call fetched a packet that split into units.
MergeRead    == /\ fm_last.called /\ ~fm_last.eof
                /\ fm_last.pkt # BlankPkt /\ Parses(fm_last.pkt)
MergeIn      == fm_last.pkt.units
MergePending == fm_last.ctx.temporal_unit
\* The split filter's last call fetched a packet that split into units.
SplitRead    == /\ fs_last.called /\ ~fs_last.eof
                /\ ~HasData(fs_last.ctx.buffer_pkt)
                /\ fs_last.pkt # BlankPkt /\ Parses(fs_last.pkt)

\* C1 as stated: whenever the accumulator holds units and the packet's
\* first OBU is a Temporal Delimiter, the call outputs the accumulated units
\* and the accumulator afterwards holds exactly the packet's OBUs.
C1_Original ==
    (/\ MergeRead /\ Len(MergeIn) > 0 /\ Len(MergePending) > 0
     /\ IsDelimiter(MergeIn[1]))
    => /\ fm_out.ret = OK
       /\ fm_out.pkt.units = MergePending
       /\ fm.temporal_unit = MergeIn
       /\ fm.frag = <<>>

\* C1 as amended: the same, for a packet none of whose later OBUs is a
\* Temporal Delimiter.
C1_EmitOnDelimiter ==
    (/\ MergeRead /\ Len(MergeIn) > 0 /\ Len(MergePending) > 0
     /\ IsDelimiter(MergeIn[1]) /\ DelimiterOnlyAtHead(MergeIn))
    => /\ fm_out.ret = OK
       /\ fm_out.pkt.units = MergePending
       /\ fm.temporal_unit = MergeIn
       /\ fm.frag = <<>>

C1_Witness ==
    /\ MergeRead /\ Len(MergeIn) > 1 /\ Len(MergePending) > 1
    /\ IsDelimiter(MergeIn[1]) /\ DelimiterOnlyAtHead(MergeIn)
    /\ fm_out.ret = OK /\ fm.temporal_unit = MergeIn

\* C2: with an empty accumulator, a packet whose first OBU is not a Temporal
\* Delimiter is rejected with InvalidData and no output packet is produced.
C2_MissingDelimiter ==
    (/\ MergeRead /\ Len(MergeIn) > 0 /\ Len(MergePending) = 0
     /\ ~IsDelimiter(MergeIn[1]))
    => /\ fm_out.ret = AVERROR_INVALIDDATA
       /\ fm_out.pkt = BlankPkt
       /\ fm.temporal_unit = <<>>

C2_Witness ==
    /\ MergeRead /\ Len(MergeIn) > 1 /\ Len(MergePending) = 0
    /\ ~IsDelimiter(MergeIn[1]) /\ DelimiterOnlyAtHead(MergeIn)
    /\ fm_out.ret = AVERROR_INVALIDDATA

\* C3: an accepted packet that does not trigger an emit is appended to the
\* end of the accumulator in its order, and the call returns EAGAIN without
\* an output packet.
C3_Append ==
    (/\ MergeRead /\ Len(MergeIn) > 0 /\ DelimiterOnlyAtHead(MergeIn)
     /\ \/ Len(MergePending) = 0 /\ IsDelimiter(MergeIn[1])
        \/ Len(MergePending) > 0 /\ ~IsDelimiter(MergeIn[1]))
    => /\ fm_out.ret = AVERROR_EAGAIN
       /\ fm_out.pkt = BlankPkt
       /\ fm.temporal_unit = MergePending \o MergeIn

C3_Witness ==
    /\ MergeRead /\ Len(MergeIn) > 1 /\ Len(MergePending) > 1
    /\ ~IsDelimiter(MergeIn[1]) /\ DelimiterOnlyAtHead(MergeIn)
    /\ fm_out.ret = AVERROR_EAGAIN
    /\ fm.temporal_unit = MergePending \o MergeIn

\* C4: a packet with a Temporal Delimiter at a unit index other than 0
\* yields InvalidData in every accumulator state.
C4_MisplacedDelimiter ==
    (MergeRead /\ ~DelimiterOnlyAtHead(MergeIn))
    => fm_out.ret = AVERROR_INVALIDDATA

C4_Witness ==
    /\ MergeRead /\ Len(MergeIn) = 2 /\ Len(MergePending) > 0
    /\ IsDelimiter(MergeIn[1]) /\ IsDelimiter(MergeIn[2])
    /\ fm_out.ret = AVERROR_INVALIDDATA

\* C6 as stated: a packet that splits into zero OBUs leaves the pending
\* units in the accumulator, and the stream goes on.
C6_Original ==
    (MergeRead /\ Len(MergeIn) = 0)
    => /\ fm.temporal_unit = MergePending
       /\ fm_out.ret # AVERROR_INVALIDDATA

\* C6 as amended: a packet that splits into zero OBUs is rejected with
\* InvalidData, and the pending units are dropped from the accumulator.
C6_NoObuRejected ==
    (MergeRead /\ Len(MergeIn) = 0)
    => /\ fm_out.ret = AVERROR_INVALIDDATA
       /\ fm_out.pkt = BlankPkt
       /\ fm.temporal_unit = <<>>
       /\ fm.frag = <<>>

C6_Witness ==
    /\ MergeRead /\ Len(MergeIn) = 0 /\ Len(MergePending) > 0
    /\ fm_out.ret = AVERROR_INVALIDDATA

\* The stream of the scenario: [TD, SH, Frame], [TD, Frame].
ScenarioUnits ==
    << <<TemporalDelimiter, SequenceHeader, Frame(1)>>,
       <<TemporalDelimiter, Frame(1)>> >>
InScenario ==
    /\ Len(pipe.stream) = 2
    /\ \A k \in 1..2 : pipe.stream[k].units = ScenarioUnits[k]
\* The units of the packets the merge filter has output.
OutUnits == [k \in 1..Len(pipe.outs) |-> pipe.outs[k].units]

\* C5: at the end of the input the pending units are output as one final
\* packet and the next call reports the end of the stream; the stream
\* [TD, SH, Frame], [TD, Frame] gives the first packet when the second
\* arrives and the second packet once the end of the input is signalled.
C5_FlushAtEOF ==
    /\ (fm_last.called /\ fm_last.eof /\ Len(MergePending) > 0)
       => /\ fm_out.ret = OK
          /\ fm_out.pkt.units = MergePending
          /\ fm.temporal_unit = <<>>
          /\ av1_frame_merge_filter(fm, fm_bsf).ret = AVERROR_EOF
          /\ av1_frame_merge_filter(fm, fm_bsf).pkt = BlankPkt
    /\ (fm_last.called /\ fm_last.eof /\ Len(MergePending) = 0)
       => fm_out = [pkt |-> BlankPkt, ret |-> AVERROR_EOF]
    /\ InScenario
       => /\ fm_out.ret # AVERROR_INVALIDDATA
          /\ Len(pipe.queue) = 2 => OutUnits = <<>>
          /\ ~fm_bsf.eof => OutUnits \in {<<>>, <<ScenarioUnits[1]>>}
          /\ OutUnits # <<>> => Len(pipe.queue) = 0
          /\ fm_out.ret = AVERROR_EOF => OutUnits = ScenarioUnits

C5_Witness ==
    /\ InScenario
    /\ fm_last.called /\ fm_last.eof /\ Len(MergePending) = 0
    /\ fm_out.ret = AVERROR_EOF
    /\ OutUnits = ScenarioUnits

C7_Original ==
    /\ ~(fm_last.violated /\ fm_last.called /\ fm_out.ret = OK)
    /\ ~(fs_last.violated /\ fs_last.called /\ fs_out.ret = OK)

\* C7 as amended: the call that meets the violation returns InvalidData
\* without a packet and leaves the filter as it is before a stream starts:
\* the merge filter's fragments are empty, the split filter holds no
\* packet and no units.
C7_ViolationFailsCall ==
    /\ (/\ fm_last.called
        /\ MergeViolation(fm_last.ctx,
                          [buffer_pkt |-> fm_last.pkt, eof |-> fm_last.eof]))
       => /\ fm_out = [pkt |-> BlankPkt, ret |-> AVERROR_INVALIDDATA]
          /\ fm = MergeInit
    /\ (/\ fs_last.called
        /\ SplitViolation(fs_last.ctx,
                          [buffer_pkt |-> fs_last.pkt, eof |-> fs_last.eof]))
       => /\ fs_out.ret = AVERROR_INVALIDDATA
          /\ fs_out.pkt = BlankPkt
          /\ fs.buffer_pkt = BlankPkt
          /\ fs.temporal_unit = <<>>

C7_Witness ==
    /\ fs_last.called
    /\ HasData(fs_last.ctx.buffer_pkt)
    /\ SplitViolation(fs_last.ctx,
                      [buffer_pkt |-> fs_last.pkt, eof |-> fs_last.eof])
    /\ fs_out.ret = AVERROR_INVALIDDATA

\* C8: whenever a filter returns an error, the merge filter's fragments hold
\* no units, the split filter's buffered packet and fragment are released,
\* and the output packet is blank.
C8_ErrorResetsState ==
    /\ (fm_last.called /\ fm_out.ret = AVERROR_INVALIDDATA)
       => /\ fm.temporal_unit = <<>>
          /\ fm.frag = <<>>
          /\ fm_out.pkt = BlankPkt
    /\ (fs_last.called /\ fs_out.ret = AVERROR_INVALIDDATA)
       => /\ fs.buffer_pkt = BlankPkt
          /\ fs.temporal_unit = <<>>
          /\ fs_out.pkt = BlankPkt

\* C10: a packet with at most one Frame or Frame Header OBU is returned by
\* the call that fetches it, unmodified, and nothing of it is kept.
C10_PassThrough ==
    (SplitRead /\ CountFrames(fs_last.pkt.units) <= 1)
    => /\ fs_out.ret = OK
       /\ fs_out.pkt = fs_last.pkt
       /\ fs.buffer_pkt = BlankPkt
       /\ fs.temporal_unit = <<>>

C10_Witness ==
    /\ SplitRead
    /\ CountFrames(fs_last.pkt.units) = 1
    /\ Len(fs_last.pkt.units) > 2
    /\ fs_out.ret = OK
    /\ fs_out.pkt = fs_last.pkt

\* The units the split filter's last call worked on, and the index of the
\* first unit it looked at.
IsFrameUnit(unit) == unit.type \in {AV1_OBU_FRAME, AV1_OBU_FRAME_HEADER}
SplitUnitsSeen ==
    IF HasData(fs_last.ctx.buffer_pkt) THEN fs_last.ctx.temporal_unit
    ELSE fs_last.pkt.units
SplitStart ==
    IF HasData(fs_last.ctx.buffer_pkt) THEN fs_last.ctx.cur_frame_idx + 2
    ELSE 1
\* Unit i opens a frame with a Frame Header that is not show_existing_frame,
\* and unit j is the next Frame or Frame Header, with no tile group that
\* ends the frame in between.
SecondFrameBeforeSplit(td, start) ==
    \E i \in start..Len(td) : \E j \in (i + 1)..Len(td) :
        /\ \A k \in start..(i - 1) :
              ~IsFrameUnit(td[k]) /\ td[k].type # AV1_OBU_TILE_GROUP
        /\ td[i].type = AV1_OBU_FRAME_HEADER
        /\ td[i].show_existing_frame = 0
        /\ IsFrameUnit(td[j])
        /\ \A k \in (i + 1)..(j - 1) :
              /\ ~IsFrameUnit(td[k])
              /\ ~(/\ td[k].type = AV1_OBU_TILE_GROUP
                   /\ td[k].tg_end = td[i].tile_cols * td[i].tile_rows - 1)

\* C11: a call of the split filter that meets a second Frame or Frame
\* Header OBU while it collects a packet, before a split point, returns
\* InvalidData and no packet.
C11_SecondFrameFails ==
    (/\ fs_last.called /\ ~fs_last.eof
     /\ HasData(fs_last.ctx.buffer_pkt) \/ SplitRead
     /\ SecondFrameBeforeSplit(SplitUnitsSeen, SplitStart))
    => /\ fs_out.ret = AVERROR_INVALIDDATA
       /\ fs_out.pkt = BlankPkt

\* The second frame is met by a call that continues a packet of which one
\* frame has already been split off.
C11_Witness ==
    /\ fs_last.called
    /\ HasData(fs_last.ctx.buffer_pkt)
    /\ fs_last.ctx.cur_frame = 1
    /\ SecondFrameBeforeSplit(SplitUnitsSeen, SplitStart)
    /\ fs_out.ret = AVERROR_INVALIDDATA

\* The split filter's last call cut a packet out of a packet with more than
\* one frame: the packet it cut from, and the frame it cut out.
SplitOff ==
    /\ fs_last.called /\ ~fs_last.eof
    /\ \/ HasData(fs_last.ctx.buffer_pkt)
       \/ SplitRead /\ CountFrames(fs_last.pkt.units) > 1
    /\ fs_out.ret = OK
SplitFrom ==
    IF HasData(fs_last.ctx.buffer_pkt) THEN fs_last.ctx.buffer_pkt
    ELSE fs_last.pkt
FrameOf(pkt) ==
    pkt.units[CHOOSE i \in 1..Len(pkt.units) :
                 /\ IsFrameUnit(pkt.units[i])
                 /\ \A k \in 1..(i - 1) : ~IsFrameUnit(pkt.units[k])]
Shown(frame) == frame.show_existing_frame = 1 \/ frame.show_frame = 1

\* C12: a split-off packet has the timestamps and side data of the packet
\* it was cut from, except that its pts is AV_NOPTS_VALUE when, and only
\* when, its frame has neither show_frame nor show_existing_frame set.
C12_SplitTimestamps ==
    SplitOff =>
        /\ CountFrames(fs_out.pkt.units) = 1
        /\ fs_out.pkt.dts = SplitFrom.dts
        /\ fs_out.pkt.side_data_elems = SplitFrom.side_data_elems
        /\ fs_out.pkt.pts = IF Shown(FrameOf(fs_out.pkt))
                            THEN SplitFrom.pts
                            ELSE AV_NOPTS_VALUE

\* A frame that is not shown has been split off a packet with a pts.
C12_Witness ==
    /\ SplitOff
    /\ SplitFrom.pts # AV_NOPTS_VALUE
    /\ ~Shown(FrameOf(fs_out.pkt))
    /\ fs_out.pkt.pts = AV_NOPTS_VALUE
    /\ fs_out.pkt.dts = SplitFrom.dts

\* ------------------------------------------------- IAMF demuxer claims
\* The demuxer's last call and the OBUs it was given.
HeaderCall == iamf_call.fn = "iamf_read_header"
PacketCall == iamf_call.fn = "iamf_read_packet"
ObusIn     == iamf_call.obus
IsObu(k, type) ==
    ObusIn[k].type = type /\ ~ObusIn[k].trunc
IsAudioFrame(obu) ==
    /\ obu.type >= IAMF_OBU_IA_AUDIO_FRAME
    /\ obu.type <= IAMF_OBU_IA_AUDIO_FRAME_ID17
\* The ids that the OBUs in front of OBU k have registered: iamf_read_header
\* reads OBU k only when it has accepted all of them.  An Audio Element
\* whose codec config has no known codec is not registered.
CodecIdsBefore(k) ==
    {ObusIn[j].id : j \in {i \in 1..(k - 1) :
                              IsObu(i, IAMF_OBU_IA_CODEC_CONFIG)}}
KnownCodecBefore(k, id) ==
    \E j \in 1..(k - 1) :
        /\ IsObu(j, IAMF_OBU_IA_CODEC_CONFIG)
        /\ ObusIn[j].id = id
        /\ ObusIn[j].codec # AV_CODEC_ID_NONE
ElementsBefore(k) ==
    {j \in 1..(k - 1) : /\ IsObu(j, IAMF_OBU_IA_AUDIO_ELEMENT)
                        /\ KnownCodecBefore(j, ObusIn[j].ref)}
AudioIdsBefore(k) == {ObusIn[j].id : j \in ElementsBefore(k)}
\* The parameter ids the context has definitions for.
ParamIds == {iamf.c.param_definitions[i].id :
                i \in 1..Len(iamf.c.param_definitions)}
UnresolvedElement(k) ==
    /\ IsObu(k, IAMF_OBU_IA_AUDIO_ELEMENT)
    /\ ObusIn[k].ref \notin CodecIdsBefore(k)
UnresolvedSubmix(k) ==
    /\ IsObu(k, IAMF_OBU_IA_MIX_PRESENTATION)
    /\ \E j \in 1..Len(ObusIn[k].params) :
          ObusIn[k].params[j].ref \notin AudioIdsBefore(k)
UnresolvedBlock(k) ==
    /\ IsObu(k, IAMF_OBU_IA_PARAMETER_BLOCK)
    /\ ObusIn[k].id \notin ParamIds
\* Every unresolved reference of a descriptor makes iamf_read_header fail.
UnresolvedDescriptorFails ==
    HeaderCall =>
        \A k \in 1..Len(ObusIn) :
            (UnresolvedElement(k) \/ UnresolvedSubmix(k))
            => /\ iamf_call.ret = AVERROR_INVALIDDATA
               /\ iamf.phase = "failed"

\* C13 as stated: an Audio Element with an unregistered codec_config_id, a
\* Mix Presentation with an unregistered audio_element_id and a Parameter
\* Block with an unregistered parameter_id each make the call that reads
\* them return InvalidData.
C13_Original ==
    /\ UnresolvedDescriptorFails
    /\ PacketCall =>
          \A k \in 1..Len(ObusIn) :
              UnresolvedBlock(k) => iamf_call.ret = AVERROR_INVALIDDATA

\* C13 as amended: unresolved references of an Audio Element and of a Mix
\* Presentation make iamf_read_header return InvalidData; a Parameter Block
\* with an unregistered parameter_id is skipped: the call does not fail for
\* it and the parameter snapshots stay as they were.
C13_UnresolvedReferences ==
    /\ UnresolvedDescriptorFails
    /\ (/\ PacketCall
        /\ \E k \in 1..Len(ObusIn) : UnresolvedBlock(k)
        /\ \A k \in 1..Len(ObusIn) :
              ObusIn[k].type = IAMF_OBU_IA_PARAMETER_BLOCK
              => UnresolvedBlock(k))
       => /\ Params(iamf.c) = iamf_call.before
          /\ iamf_call.ret = AVERROR_INVALIDDATA
             => IsAudioFrame(ObusIn[Len(ObusIn)])
          /\ iamf_call.pkt # NoPkt
             => /\ iamf_call.pkt.mix = iamf_call.before.mix
                /\ iamf_call.pkt.demix = iamf_call.before.demix
                /\ iamf_call.pkt.recon = iamf_call.before.recon

\* A Parameter Block with an unregistered id is read in front of an Audio
\* Frame, whose packet is returned with the snapshot set before.
C13_Witness ==
    /\ PacketCall
    /\ Len(ObusIn) = 2
    /\ UnresolvedBlock(1)
    /\ iamf_call.ret = OK
    /\ iamf_call.pkt # NoPkt
    /\ iamf_call.before.demix # NoParam
    /\ iamf_call.pkt.demix = iamf_call.before.demix

\* The mix presentation that OBU k has registered, and the audio element
\* OBU that has registered the id.
MixOf(k) ==
    iamf.c.mix_presentations[
        CHOOSE m \in 1..Len(iamf.c.mix_presentations) :
            iamf.c.mix_presentations[m].id = ObusIn[k].id]
ElementObuOf(k, id) ==
    ObusIn[CHOOSE j \in ElementsBefore(k) : ObusIn[j].id = id]
\* A parameter_id of a submix element that an earlier Audio Element has
\* defined with another type.
ParamConflict(k) ==
    \E j \in ElementsBefore(k) :
        \E p \in 1..Len(ObusIn[j].params) :
            \E q \in 1..Len(ObusIn[k].params) :
                ObusIn[j].params[p].id \in
                    {ObusIn[k].params[q].id, ObusIn[k].ref}
\* OBU k is a Mix Presentation with a new id.
NewMix(k) ==
    /\ IsObu(k, IAMF_OBU_IA_MIX_PRESENTATION)
    /\ \A j \in 1..(k - 1) :
          ~(IsObu(j, IAMF_OBU_IA_MIX_PRESENTATION)
            /\ ObusIn[j].id = ObusIn[k].id)

\* C14: a Mix Presentation with a submix element whose audio_element_id no
\* earlier Audio Element has registered makes iamf_read_header return
\* InvalidData; with every audio_element_id registered earlier, the Mix
\* Presentation is registered and each submix element refers to the audio
\* element that was registered under its audio_element_id, with the codec
\* config and the substreams of that Audio Element OBU.
C14_MixResolvesElements ==
    HeaderCall =>
    \A k \in 1..Len(ObusIn) :
        /\ UnresolvedSubmix(k) => iamf_call.ret = AVERROR_INVALIDDATA
        /\ (NewMix(k) /\ ~UnresolvedSubmix(k) /\ ~ParamConflict(k))
           => /\ iamf_call.ret \in {OK, AVERROR_EOF} \/ k < Len(ObusIn)
              /\ Len(MixOf(k).elements) = Len(ObusIn[k].params)
              /\ \A j \in 1..Len(ObusIn[k].params) :
                    LET id  == ObusIn[k].params[j].ref
                        e   == iamf.c.audio_elements[
                                   MixOf(k).elements[j].audio_element]
                        obu == ElementObuOf(k, id)
                    IN  /\ e.id = id
                        /\ e.codec_config_id = obu.ref
                        /\ e.layers = obu.layers
                        /\ [i \in 1..Len(e.audio_substreams) |->
                               iamf.c.streams[e.audio_substreams[i]]]
                             = obu.substreams

\* A Mix Presentation refers to the second of two registered audio
\* elements.
C14_Witness ==
    /\ HeaderCall
    /\ iamf_call.ret = OK
    /\ Len(iamf.c.audio_elements) = 2
    /\ Len(iamf.c.mix_presentations) = 1
    /\ Len(iamf.c.mix_presentations[1].elements) = 1
    /\ iamf.c.mix_presentations[1].elements[1].audio_element = 2
    /\ iamf.c.audio_elements[2].id
         = iamf.c.mix_presentations[1].elements[1].audio_element_id

\* C15: after a call of iamf_read_packet that has read a Temporal
\* Delimiter, no parameter snapshot is set, so that the next audio frame
\* packet carries none that was set before the delimiter.
C15_DelimiterClears ==
    (/\ PacketCall
     /\ Len(ObusIn) > 0
     /\ IsObu(Len(ObusIn), IAMF_OBU_IA_TEMPORAL_DELIMITER))
    => /\ iamf.c.mix = NoParam
       /\ iamf.c.demix = NoParam
       /\ iamf.c.recon = NoParam

\* The snapshot of one type in a context or in a packet.
ParamTypes ==
    {AV_IAMF_PARAMETER_DEFINITION_MIX_GAIN,
     AV_IAMF_PARAMETER_DEFINITION_DEMIXING,
     AV_IAMF_PARAMETER_DEFINITION_RECON_GAIN}
ParamOf(rec, type) ==
    CASE type = AV_IAMF_PARAMETER_DEFINITION_MIX_GAIN -> rec.mix
      [] type = AV_IAMF_PARAMETER_DEFINITION_DEMIXING -> rec.demix
      [] OTHER -> rec.recon
\* The definition a Parameter Block refers to.
DefinitionOf(obu) ==
    iamf.c.param_definitions[
        CHOOSE i \in 1..Len(iamf.c.param_definitions) :
            iamf.c.param_definitions[i].id = obu.id]
\* The Parameter Blocks of a type with a registered parameter_id among the
\* OBUs of the last call.
BlocksOf(type) ==
    {k \in 1..Len(ObusIn) :
        /\ IsObu(k, IAMF_OBU_IA_PARAMETER_BLOCK)
        /\ ObusIn[k].id \in ParamIds
        /\ DefinitionOf(ObusIn[k]).param_definition_type = type}
\* Those of them that are parsed to their end: a mix gain block with an
\* animation type beyond Bezier is dropped.
ParsedBlocksOf(type) ==
    {k \in BlocksOf(type) :
        type = AV_IAMF_PARAMETER_DEFINITION_MIX_GAIN
        => ObusIn[k].data.animation_type <= AV_IAMF_ANIMATION_TYPE_BEZIER}
Latest(B) == CHOOSE k \in B : \A j \in B : j <= k
\* The snapshot is the one of Parameter Block obu.
Carries(param, obu, type) ==
    /\ param.param_definition_type = type
    /\ param.parameter_id = obu.id
    /\ type = AV_IAMF_PARAMETER_DEFINITION_MIX_GAIN
       => /\ param.value = obu.data.value
          /\ param.animation_type = obu.data.animation_type
    /\ type = AV_IAMF_PARAMETER_DEFINITION_DEMIXING
       => param.value = obu.data.value
    /\ type = AV_IAMF_PARAMETER_DEFINITION_RECON_GAIN
       => param.recon_gain =
             ParseReconGain(
                 iamf.c.audio_elements[
                     DefinitionOf(obu).audio_element].layers,
                 obu.data.bytes).recon_gain
\* The packet of the last call carries, for every type, the latest block
\* of B(type), or what was set before the call when there is none; the
\* same snapshots stay set for the next call.
CarriesLatest(B(_)) ==
    (PacketCall /\ iamf_call.ret = OK /\ iamf_call.pkt # NoPkt)
    => \A type \in ParamTypes :
          /\ IF B(type) = {}
             THEN ParamOf(iamf_call.pkt, type)
                     = ParamOf(iamf_call.before, type)
             ELSE Carries(ParamOf(iamf_call.pkt, type),
                          ObusIn[Latest(B(type))], type)
          /\ ParamOf(iamf.c, type) = ParamOf(iamf_call.pkt, type)

\* C16 as stated: an audio frame packet carries, for each type, the latest
\* Parameter Block of that type with a registered parameter_id that has
\* been read before it.
C16_Original == CarriesLatest(BlocksOf)

\* C16 as amended: an audio frame packet carries, for each type, the latest
\* Parameter Block of that type with a registered parameter_id that has
\* been parsed to its end before it; a mix gain block with an animation
\* type beyond Bezier leaves the snapshot as it was.
C16_CarriesLatestBlock == CarriesLatest(ParsedBlocksOf)

\* A demixing block replaces the one that was set, in front of an Audio
\* Frame.
C16_Witness ==
    /\ PacketCall
    /\ iamf_call.ret = OK
    /\ iamf_call.pkt # NoPkt
    /\ BlocksOf(AV_IAMF_PARAMETER_DEFINITION_DEMIXING) # {}
    /\ iamf_call.before.demix # NoParam
    /\ iamf_call.before.mix # NoParam
    /\ iamf_call.pkt.demix # iamf_call.before.demix
    /\ iamf_call.pkt.mix = iamf_call.before.mix

\* C17: a call of iamf_read_packet that returns 0 has filled the packet
\* from an Audio Frame OBU, for the stream whose id is the OBU's substream
\* id.
C17_OnePacketPerCall ==
    (PacketCall /\ iamf_call.ret = OK)
    => /\ iamf_call.pkt # NoPkt
       /\ Len(ObusIn) > 0
       /\ LET obu == ObusIn[Len(ObusIn)]
          IN  /\ IsAudioFrame(obu)
              /\ iamf_call.pkt.stream_index >= 0
              /\ iamf.c.streams[iamf_call.pkt.stream_index + 1]
                   = IF obu.type = IAMF_OBU_IA_AUDIO_FRAME THEN obu.id
                     ELSE obu.type - IAMF_OBU_IA_AUDIO_FRAME_ID0

\* ---------------------------------------------------------------- C18
ReconCall == pure.fn = "parameter_block_obu"
Flagged(layers) == {i \in 1..Len(layers) : layers[i] = 1}

\* C18: a recon gain block is parsed for exactly the layers that have
\* recon_gain_is_present set: a bitmap is read for no other layer, every
\* gain of another layer stays 0, and when the block is parsed to its end
\* a bitmap has been read for every flagged layer.
C18_ReconGainFlaggedLayers ==
    ReconCall
    => LET layers == pure.arg.layers
           res    == pure.res
       IN  /\ res.read \subseteq Flagged(layers)
           /\ \A i \in (1..Len(layers)) \ Flagged(layers) :
                 \A j \in 1..ReconGainBits : res.recon_gain[i][j] = 0
           /\ res.err = OK => res.read = Flagged(layers)

\* An element with two layers of which the second is flagged: its bitmap
\* 3 selects two gains, which are read.
C18_Witness ==
    /\ ReconCall
    /\ pure.arg.layers = <<0, 1>>
    /\ pure.arg.bytes = <<3, 9, 1>>
    /\ pure.res.err = OK
    /\ pure.res.read = {2}
    /\ pure.res.recon_gain[2][1] = 9
    /\ pure.res.recon_gain[2][2] = 1
    /\ pure.res.pos = 3

\* ---------------------------------------------------------------- C19
\* C19: the buffer assembled from the fragment that was split from B is B.
C19_RoundTrip ==
    pure.fn = "cbs_mpeg2_assemble_fragment" => pure.res.data = pure.arg

\* ---------------------------------------------------------------- C20
LebCall == pure.fn = "leb"
\* The value that was read, as eight groups.
Widen(len) == [i \in 1..8 |-> IF i <= 5 THEN len[i] ELSE 0]
Below32Bits(u) == u[5] < 16 /\ \A i \in 6..8 : u[i] = 0

\* C20 as stated: for every u below 2^56 the bytes written for u are read
\* back as u.
C20_Original ==
    LebCall => /\ pure.res.read.err = OK
               /\ Widen(pure.res.read.len) = pure.arg

\* C20 as amended: for every u below 2^32 the bytes written for u are
\* read back as u, all of them.
C20_RoundTrip32 ==
    (LebCall /\ Below32Bits(pure.arg))
    => /\ pure.res.read.err = OK
       /\ pure.res.read.n = Len(pure.res.bytes)
       /\ Widen(pure.res.read.len) = pure.arg

\* 2^32 - 1 is written as five bytes and read back.
C20_Witness ==
    /\ LebCall
    /\ pure.arg = <<127, 127, 127, 127, 15, 0, 0, 0>>
    /\ pure.res.bytes = <<255, 255, 255, 255, 15>>
    /\ pure.res.read.err = OK
    /\ Widen(pure.res.read.len) = pure.arg

\* ---------------------------------------------------------------- C30
HeadedByDelimiter(units) ==
    /\ IsDelimiter(units[1])
    /\ DelimiterOnlyAtHead(units)

\* C30: between the calls of the merge filter, an accumulator that holds
\* units starts with a Temporal Delimiter and holds no other one, and every
\* packet the filter outputs holds exactly one Temporal Delimiter, at unit
\* index 0.
C30_DelimiterAtHead ==
    /\ Len(fm.temporal_unit) > 0 => HeadedByDelimiter(fm.temporal_unit)
    /\ fm_out.ret = OK => /\ Len(fm_out.pkt.units) > 0
                          /\ HeadedByDelimiter(fm_out.pkt.units)

\* A packet of several units is output while the next temporal unit, of
\* several units as well, is pending.
C30_Witness ==
    /\ fm_last.called
    /\ fm_out.ret = OK
    /\ Len(fm_out.pkt.units) > 1
    /\ Len(fm.temporal_unit) > 1
    /\ HeadedByDelimiter(fm_out.pkt.units)
    /\ HeadedByDelimiter(fm.temporal_unit)

\* ---------------------------------------------------------------- C21
\* The first eight bytes of the field all have the continuation bit set.
NeedsNinthByte(bytes) == \A i \in 1..8 : bytes[i] >= 128

\* C21 as stated: every reader of a leb128 field consumes at most 8 bytes,
\* and a field whose 8th byte has the continuation bit set makes the read
\* fail: leb() returns an error, parse_obu_header() of the demuxer fails on
\* a header with such a field, ff_av1_extract_obu() fails on an OBU with
\* such an obu_size.
C21_NinthByteRejected ==
    /\ pure.fn = "leb"
       => /\ pure.res.n <= 8
          /\ NeedsNinthByte(pure.arg) => pure.res.err = AVERROR_INVALIDDATA
    /\ pure.fn = "parse_obu_header"
       => /\ pure.res.read.n <= 8
          /\ NeedsNinthByte(pure.arg) => pure.res.header.err # OK
    /\ pure.fn = "ff_av1_extract_obu"
       => /\ pure.res.read.n <= 8
          /\ NeedsNinthByte(pure.arg) => pure.res.obu.err # OK

\* ---------------------------------------------------------------- C22
FragmentSplit ==
    pure.fn \in {"cbs_mpeg2_split_fragment", "ff_av1_packet_split"}

\* C22 as stated: splitting a buffer of length zero fails, and no unit is
\* handed to the caller.
C22_EmptyBufferFails ==
    (FragmentSplit /\ pure.arg = <<>>)
    => /\ pure.res.ret # OK
       /\ IF pure.fn = "ff_av1_packet_split"
          THEN pure.res.obus = <<>>
          ELSE pure.res.units = <<>>

\* ---------------------------------------------------------------- C23
\* The offsets (1-based) at which the start code prefix 00 00 01 occurs.
Prefixes(data) ==
    {k \in 1..(Len(data) - 2) :
        data[k] = 0 /\ data[k + 1] = 0 /\ data[k + 2] = 1}
\* The i-th of them, and the offset at which the unit it begins ends.
Prefix(data, i) ==
    CHOOSE k \in Prefixes(data) :
        Cardinality({j \in Prefixes(data) : j < k}) = i - 1
UnitEnd(data, i) ==
    IF i < Cardinality(Prefixes(data)) THEN Prefix(data, i + 1) - 1
    ELSE Len(data)

\* C23 as stated: the units of a split buffer are begun, one each and in
\* order, by the occurrences of the prefix 00 00 01; a unit holds the bytes
\* from the one behind its prefix to the next prefix or the end of the
\* buffer, and its type is the byte behind its prefix.
C23_UnitPerStartCode ==
    pure.fn = "cbs_mpeg2_split_fragment"
    => LET data  == pure.arg
           units == pure.res.units
       IN  /\ Len(units) = Cardinality(Prefixes(data))
           /\ \A i \in 1..Len(units) :
                 /\ units[i].data =
                       SubSeq(data, Prefix(data, i) + 3, UnitEnd(data, i))
                 /\ Prefix(data, i) + 3 <= Len(data)
                       => units[i].type = data[Prefix(data, i) + 3]

\* ---------------------------------------------------------------- C27
\* The tag occurs somewhere in the buffer.
HoldsTag(buf) ==
    \E k \in 1..(Len(buf) - 3) : SubSeq(buf, k, k + 3) = IamfTag
\* The OBU is a Sequence Header whose payload starts with the tag.
TaggedHeader(buf, obu) ==
    /\ obu.type = IAMF_OBU_IA_SEQUENCE_HEADER
    /\ obu.data + 4 <= Len(buf)
    /\ SubSeq(buf, obu.data + 1, obu.data + 4) = IamfTag

\* C27: a buffer is given a score other than 0 only if the OBU that decided
\* it has an Audio Frame type and a Sequence Header OBU whose payload
\* starts with 'iamf' was parsed before it; a buffer that does not hold the
\* tag scores 0.
C27_ProbeNeedsSequenceHeader ==
    pure.fn = "iamf_probe"
    => LET seen == pure.res.seen
       IN  /\ pure.res.ret # 0
              => /\ Len(seen) >= 2
                 /\ seen[Len(seen)].type >= IAMF_OBU_IA_AUDIO_FRAME
                 /\ seen[Len(seen)].type <= IAMF_OBU_IA_AUDIO_FRAME_ID17
                 /\ \E i \in 1..(Len(seen) - 1) :
                       TaggedHeader(pure.arg, seen[i])
           /\ ~HoldsTag(pure.arg) => pure.res.ret = 0

\* A Sequence Header, a Codec Config and an Audio Frame: the score of the
\* extension and one.
C27_Witness ==
    /\ pure.fn = "iamf_probe"
    /\ pure.res.ret = AVPROBE_SCORE_EXTENSION + 1
    /\ Len(pure.res.seen) = 3
    /\ TaggedHeader(pure.arg, pure.res.seen[1])
    /\ pure.res.seen[2].type = IAMF_OBU_IA_CODEC_CONFIG
    /\ pure.res.seen[3].type = IAMF_OBU_IA_AUDIO_FRAME_ID0

\* ---------------------------------------------------------------- C28
\* C28 as stated: a reader whose OBU declares another length than was read
\* logs a warning and succeeds by default, and fails under strict
\* validation (AV_EF_EXPLODE); an OBU of the declared length passes.
C28_StrictUnderreadFails ==
    pure.fn \in Readers
    => LET strict == AV_EF_EXPLODE \in pure.arg.error_recognition
       IN  IF pure.arg.len = pure.arg.tell
           THEN pure.res.ret = OK /\ pure.res.log = ""
           ELSE IF strict
           THEN pure.res.ret # OK
           ELSE pure.res.ret = OK /\ pure.res.log = AV_LOG_WARNING

\* ---------------------------------------------------------------- C29
\* The layout is in native order, or in custom order with distinct ids.
NativeOrDistinct(l) ==
    \/ l.order = AV_CHANNEL_ORDER_NATIVE
    \/ /\ l.order = AV_CHANNEL_ORDER_CUSTOM
       /\ \A i, j \in 1..Len(l.map) : l.map[i] = l.map[j] => i = j
\* The channels of the layout.
ChannelsOf(l) ==
    IF l.order = AV_CHANNEL_ORDER_NATIVE THEN l.mask
    ELSE {l.map[i] : i \in 1..Len(l.map)}

\* C29 as stated: in a native layout, or a custom layout with distinct
\* channels, the channel found at an index below the channel count has
\* that index, an index at or above the count has no channel, and a
\* channel that is not in the layout has a negative error for index.
C29_IndexChannelMapping ==
    NativeOrDistinct(pure.arg)
    => /\ pure.fn = "index_of_channel_from_index"
          => IF pure.res.idx < pure.arg.nb_channels
             THEN pure.res.index = Index(pure.res.idx)
             ELSE pure.res.channel = AV_CHAN_NONE
       /\ (/\ pure.fn = "av_channel_layout_index_from_channel"
           /\ pure.res.channel \notin ChannelsOf(pure.arg))
          => pure.res.index.err = AVERROR_EINVAL

\* ---------------------------------------------------------------- C26
\* The stream groups that iamf_init counts: the caller's, or the audio
\* element and the mix presentation that it makes up when there are none.
CountedGroups(s, type) ==
    IF Len(s.stream_groups) = 0 THEN 1
    ELSE Cardinality({i \in 1..Len(s.stream_groups) :
                         s.stream_groups[i].type = type})
UnsupportedTag(s) ==
    \E i \in 1..Len(s.streams) :
        /\ s.streams[i].codec_type = AVMEDIA_TYPE_AUDIO
        /\ s.streams[i].codec_tag \notin SupportedTags
MoreThanStereo(s) ==
    \E i \in 1..Len(s.streams) : s.streams[i].nb_channels > 2
AudioElementsOutOfRange(s) ==
    \/ CountedGroups(s, AV_STREAM_GROUP_PARAMS_IAMF_AUDIO_ELEMENT) < 1
    \/ CountedGroups(s, AV_STREAM_GROUP_PARAMS_IAMF_AUDIO_ELEMENT) > 2
NoMixPresentation(s) ==
    CountedGroups(s, AV_STREAM_GROUP_PARAMS_IAMF_MIX_PRESENTATION) < 1
\* C26 as stated: iamf_init fails on every configuration with an audio
\* stream of an unsupported codec tag, a stream of more than two channels,
\* fewer than one or more than two audio elements, or no mix presentation.
C26_InitRejectsViolations ==
    /\ pure.fn = "iamf_init"
    /\ \/ UnsupportedTag(pure.arg) \/ MoreThanStereo(pure.arg)
       \/ AudioElementsOutOfRange(pure.arg) \/ NoMixPresentation(pure.arg)
    => pure.res.ret # OK

\* ---------------------------------------------------------------- C25
\* The last call of iamf_write_packet: the id of the packet's stream, and
\* the last OBU that the call has written.
WrittenId == pure.arg.s.streams[pure.arg.pkt.stream_index + 1].id
LastWritten == pure.res.out[Len(pure.res.out)]
PacketWritten == pure.fn = "iamf_write_packet" /\ pure.res.ret = OK
\* C25 as stated: the Audio Frame OBU of a packet has the implicit type
\* AudioFrameId0 + id and the packet's data as its body when the stream id
\* is in 0..17, and otherwise the type AudioFrame and a body of the
\* leb128 id followed by the data; the demuxer maps the OBU back to the
\* same stream id.
C25_AudioFrameMapsBack ==
    PacketWritten
    => LET type == LastWritten.header \div 8
           l    == DecLeb(LastWritten.body, 0)
       IN  /\ LastWritten.complete
           /\ WrittenId \in 0..17
              => /\ type = IAMF_OBU_IA_AUDIO_FRAME_ID0 + WrittenId
                 /\ LastWritten.body = pure.arg.pkt.data
           /\ WrittenId \notin 0..17
              => /\ type = IAMF_OBU_IA_AUDIO_FRAME
                 /\ l.err = OK
                 /\ LastWritten.body
                        = SubSeq(LastWritten.body, 1, l.n)
                          \o pure.arg.pkt.data
           /\ ReadSubstreamId(LastWritten) = [err |-> OK, id |-> WrittenId]

\* ---------------------------------------------------------------- C24
IsParameterBlock(obu) == obu.header \div 8 = IAMF_OBU_IA_PARAMETER_BLOCK
\* The streams of the last call have ids that differ from each other.
DistinctIds ==
    \A i, j \in 1..Len(pure.arg.s.streams) :
        i # j => pure.arg.s.streams[i].id # pure.arg.s.streams[j].id
\* C24 as stated: a call of iamf_write_packet writes Parameter Block OBUs
\* only for a packet of the first stream, and every Parameter Block OBU
\* that it writes comes before the packet's Audio Frame OBU, which is the
\* last OBU of a call that succeeds; a call that fails writes no audio
\* frame.
C24_ParameterBlocksFirst ==
    pure.fn = "iamf_write_packet"
    => LET out == pure.res.out
       IN  /\ (\E i \in 1..Len(out) : IsParameterBlock(out[i]))
              => pure.arg.pkt.stream_index = 0
           /\ pure.res.ret = OK
              => /\ Len(out) > 0
                 /\ ~IsParameterBlock(out[Len(out)])
                 /\ \A i \in 1..(Len(out) - 1) :
                        IsParameterBlock(out[i]) /\ out[i].complete
           /\ pure.res.ret # OK
              => \A i \in 1..Len(out) : IsParameterBlock(out[i])

\* ---------------------------------------------------------------- C31
\* The units of the packets of a sequence, one after the other.
RECURSIVE UnitsOf(_)
UnitsOf(pkts) ==
    IF pkts = <<>> THEN <<>> ELSE Head(pkts).units \o UnitsOf(Tail(pkts))
\* A given stream has been passed through the merge filter up to the
\* AVERROR_EOF that ends it: no call has failed, as a failed call ends the
\* run.
MergedToEOF ==
    /\ inst = "pipeline"
    /\ pipe.orig = BlankPkt
    /\ fm_out.ret = AVERROR_EOF
\* C31: when a sequence of input packets has been processed by the merge
\* filter without an error up to the end of the input, the OBUs of the
\* output packets, one packet after the other, are the OBUs of the input
\* packets in their order: none is lost, duplicated or reordered.
C31_OutputIsInput ==
    MergedToEOF => UnitsOf(pipe.outs) = UnitsOf(pipe.stream)
\* Three input packets have become two output packets that are cut at
\* another place.
C31_Witness ==
    /\ MergedToEOF
    /\ Len(pipe.stream) = 3
    /\ Len(pipe.outs) = 2
    /\ Len(pipe.outs[1].units) # Len(pipe.stream[1].units)
    /\ UnitsOf(pipe.outs) = UnitsOf(pipe.stream)

\* ---------------------------------------------------------------- C32
\* The temporal unit that is split holds N > 1 Frame and Frame Header OBUs.
SplitN == CountFrames(pipe.orig.units)
SplitsInN == inst = "split_run" /\ SplitN > 1
\* The calls made so far that belong to the temporal unit.
CallsOfUnit == IF Len(pipe.outs) < SplitN THEN Len(pipe.outs) ELSE SplitN
\* C32: a well-formed packet with N > 1 Frame and Frame Header OBUs gives
\* one packet in each of the N calls that follow; the packets hold
\* consecutive ranges of the input that start at its first OBU and, after
\* the N-th call, cover all of it; the packet that was sent next is not
\* fetched before the N-th packet is out, and the call after that returns
\* its data.
C32_SplitsIntoN ==
    SplitsInN
    => /\ \A k \in 1..CallsOfUnit : Len(pipe.outs[k].units) > 0
       /\ UnitsOf(SubSeq(pipe.outs, 1, CallsOfUnit))
              = SubSeq(pipe.orig.units, 1,
                       Len(UnitsOf(SubSeq(pipe.outs, 1, CallsOfUnit))))
       /\ Len(pipe.outs) >= SplitN
          => UnitsOf(SubSeq(pipe.outs, 1, SplitN)) = pipe.orig.units
       /\ Len(pipe.outs) <= SplitN /\ pipe.stream # <<>>
          => fs_bsf.buffer_pkt = pipe.stream[1]
       /\ Len(pipe.outs) > SplitN /\ pipe.stream # <<>>
          => /\ pipe.outs[SplitN + 1].units = pipe.stream[1].units
             /\ fs_bsf.buffer_pkt = BlankPkt
       /\ Len(pipe.outs) > SplitN /\ pipe.stream = <<>>
          => pipe.outs[SplitN + 1] = BlankPkt /\ fs_out.ret = AVERROR_EAGAIN
\* A temporal unit of three frames has been split into three packets while
\* the next packet was waiting, and the fourth call has returned that one.
C32_Witness ==
    /\ SplitsInN
    /\ SplitN = 3
    /\ Len(pipe.outs) = 4
    /\ pipe.stream # <<>>
    /\ pipe.outs[4].units = pipe.stream[1].units
    /\ Len(pipe.outs[2].units) > 1


\* ---------------------------------------------------------------- C33
\* A Frame or Frame Header OBU of the parsed fragment that the split loop has
\* not passed yet.
FrameRemains(ctx) ==
    \E i \in (ctx.cur_frame_idx + 2)..Len(ctx.temporal_unit) :
        ctx.temporal_unit[i].type \in {AV1_OBU_FRAME, AV1_OBU_FRAME_HEADER}
\* C33: av_assert0(frame) never fails, whatever packets are sent and
\* whatever calls are made, a call after a parse error included: a packet
\* that the split filter retains between calls always has a Frame or Frame
\* Header OBU that was not emitted yet.
C33_AssertionHolds ==
    inst = "av1_frame_split"
    => /\ ~fs_out.abort
       /\ HasData(fs.buffer_pkt) => FrameRemains(fs)


\* ---------------------------------------------------------------- C37
\* iamf_init has succeeded and has left the muxer context.
InitDone == inst = "iamf_muxer" /\ pure.fn = "iamf_init" /\ pure.res.ret = OK
\* C37: after iamf_init no two codec configs have the same
\* codec_config_id, and every audio element refers to the codec config
\* of c->codec_configs that has the codec_config_id of its stream group.
C37_CodecConfigsDistinct ==
    InitDone
    => LET c == pure.res.c
       IN  /\ \A a, b \in 1..Len(c.codec_configs) :
                 a # b => c.codec_configs[a].codec_config_id
                              # c.codec_configs[b].codec_config_id
           /\ \A e \in 1..Len(c.audio_elements) :
                 LET k == c.audio_elements[e].codec_config
                     stg == c.stream_groups[c.audio_elements[e].stream_group]
                 IN  /\ k \in 1..Len(c.codec_configs)
                     /\ c.codec_configs[k].codec_config_id
                            = stg.codec_config_id

\* ---------------------------------------------------------------- C34
\* The OBUs of the records, in the order of the records.
ObusOf(type, ids) ==
    [k \in 1..Len(ids) |-> WrittenObu(type, EncLeb(GroupsOf(ids[k])))]
GroupIds(c, records) ==
    [k \in 1..Len(records) |-> c.stream_groups[records[k].stream_group].id]
\* C34: iamf_write_header writes the Sequence Header, then every codec
\* config, then every audio element, then every mix presentation, each
\* once and in the order in which iamf_init has registered them.
C34_HeaderInOrder ==
    inst = "iamf_muxer" /\ pure.fn = "iamf_write_header"
        /\ pure.res.ret = OK
    => LET c == pure.arg.c
       IN  pure.res.out
             = <<WrittenSequenceHeader(c)>>
               \o ObusOf(IAMF_OBU_IA_CODEC_CONFIG,
                         [k \in 1..Len(c.codec_configs) |->
                             c.codec_configs[k].codec_config_id])
               \o ObusOf(IAMF_OBU_IA_AUDIO_ELEMENT,
                         GroupIds(c, c.audio_elements))
               \o ObusOf(IAMF_OBU_IA_MIX_PRESENTATION,
                         GroupIds(c, c.mix_presentations))


\* ---------------------------------------------------------------- C35
\* The demuxer has read the recon gains that the muxer has written.
ReconTripDone == inst = "recon_gain_trip" /\ pure.fn = "parameter_block_obu"
\* C35: the recon gains of every layer with recon_gain_is_present that the
\* muxer writes are the ones that the demuxer reads back, the gains of the
\* channels 7 to 11 included, and the demuxer reads all that was written.
C35_ReconGainRoundTrip ==
    ReconTripDone
    => /\ pure.res.err = OK
       /\ pure.res.pos = Len(pure.arg.bytes)
       /\ \A i \in 1..Len(pure.arg.layers) :
             ReconGainPresent(pure.arg.layers[i])
             => pure.res.recon_gain[i] = pure.arg.recon_gain[i]


\* ---------------------------------------------------------------- C36
\* C36: the sample format byte of a PCM codec config is 0 for big-endian
\* and 1 for little-endian where it is written and where it is read: the
\* demuxer parses what the muxer has written for a PCM codec id back to
\* the same codec id.
C36_PcmCodecIdRoundTrip ==
    /\ inst = "ipcm_config" /\ pure.fn = "iamf_write_codec_config"
       => pure.res[1] = (IF pure.arg.codec_id \in
                                {"AV_CODEC_ID_PCM_S16LE",
                                 "AV_CODEC_ID_PCM_S24LE",
                                 "AV_CODEC_ID_PCM_S32LE"}
                         THEN 1 ELSE 0)
    /\ inst = "ipcm_config" /\ pure.fn = "ipcm_decoder_config"
       => /\ pure.res.ret = OK
          /\ pure.res.codec_id = pure.arg.codec_id


\* ---------------------------------------------------------------- C38
\* C38: every OBU that ff_av1_packet_split extracts lies inside the input
\* buffer: the length of its header and its payload is at most the number
\* of bytes that were left where it starts.
C38_ObuInsideBuffer ==
    inst = "av1_parse" /\ pure.fn = "ff_av1_packet_split"
    => \A i \in 1..Len(pure.res.obus) :
          pure.res.obus[i].at + pure.res.obus[i].raw_size <= Len(pure.arg)


\* ---------------------------------------------------------------- C39
\* C39: parameter_block_obu never divides by zero: where num_subblocks is
\* duration / constant_subblock_duration, constant_subblock_duration is
\* not 0, for every definition that param_parse registers and every
\* Parameter Block.
C39_NoDivisionByZero ==
    inst = "param_block" /\ pure.fn = "parameter_block_obu"
    => ~pure.res.by_zero


\* ---------------------------------------------------------------- C40
\* The handle is fully initialised: its type is set and, for a type of
\* post_process_table, its private data is allocated, its init callback
\* has returned without error and its capabilities are set.
FullyInitialised ==
    \/ pp.type = "custom"
    \/ /\ pp.type = "ff_lcevc_postproc"
       /\ pp.priv_data = "allocated"
       /\ pp.inits = 1
       /\ pp.caps = FF_POSTPROC_CAP_GET_BUFFER
\* Thread t has returned ret from fn.
Returned(t, fn, ret) ==
    pp.th[t].pc = "returned" /\ pp.th[t].fn = fn /\ pp.th[t].ret = ret
\* C40: however the calls of ff_postproc_init, ff_postproc_init_custom and
\* ff_postproc_is_open of the threads that share a handle interleave, the
\* init callback returns without error at most once, a call of
\* ff_postproc_init whose initialisation fails leaves the handle closed,
\* with no type and no private data, no call leaves a handle that has a
\* type of the table and no private data, and a thread that
\* ff_postproc_is_open has answered true or ff_postproc_init has answered 0
\* finds the handle fully initialised.
C40_InitAtomic ==
    inst = "postproc"
    => /\ pp.inits <= 1
       /\ \A t \in Threads :
             /\ \E ret \in {AVERROR_ENOSYS, AVERROR_ENOMEM,
                            AVERROR_EXTERNAL} :
                    Returned(t, "ff_postproc_init", ret)
                => pp.th[t].left = Closed
             /\ pp.th[t].pc = "returned" /\ pp.th[t].left # Untouched
                => \/ pp.th[t].left = Closed
                   \/ pp.th[t].left.type = "custom"
                   \/ pp.th[t].left.priv_data = "allocated"
             /\ \/ Returned(t, "ff_postproc_is_open", IS_OPEN)
                \/ Returned(t, "ff_postproc_init", OK)
                => FullyInitialised
\* The init callback has failed in the one call of a thread, the other
\* thread has initialised the handle and has then been told that it is
\* open.
C40_Witness ==
    /\ inst = "postproc"
    /\ pp.inits = 1
    /\ pp.type = "ff_lcevc_postproc"
    /\ \E t, u \in Threads :
          /\ t # u
          /\ Returned(t, "ff_postproc_init", AVERROR_EXTERNAL)
          /\ pp.th[t].calls = 1
          /\ Returned(u, "ff_postproc_is_open", IS_OPEN)
          /\ pp.th[u].calls = 2
====
